---- MODULE Spec2Model ----
(***************************************************************************)
(* Job control of the unified shell: the REPL loop of main.c, the executor *)
(* (execute_command, execute_pipeline), the job table (jobs.c), the signal *)
(* handlers (signals.c) and the jobs/fg/bg built-ins, together with the    *)
(* kernel objects they act on: child processes, process groups and the     *)
(* foreground process group of the controlling terminal.                   *)
(***************************************************************************)
EXTENDS Integers, Sequences, FiniteSets, TLC

\* Bounds of the model.
MaxPids == 2        \* child processes forked during one session
MaxCount == 2       \* commands in one pipeline
MaxJobs == 1        \* capacity of the job table
MaxLine == 2        \* characters the line editor's buffer takes
MaxWorkers == 1     \* num_threads of the thread pool
MaxQueue == 1       \* queue_capacity of the thread pool
MaxClients == 2     \* threads that call into the thread pool
MaxTasks == 3       \* tasks submitted to the thread pool in all
MaxWords == 5       \* words of one input line given to the parsers
MaxVars == 1        \* capacity of the environment store
MaxEnvThreads == 2  \* threads that call the environment store
MaxHistory == 3     \* capacity of the command history
MaxExpr == 5        \* characters of one arithmetic expression
MaxFdThreads == 2   \* worker threads of the file search
MaxDirs == 4        \* subdirectories the file search comes upon
MaxFdQueue == 1     \* paths the file search's work queue holds
MaxKeys == 4        \* keys pressed at one prompt
MaxExpanded == 3    \* pointer slots of an expanded argument vector
MaxArgs == 3        \* arguments of one command
MaxFiles == 4       \* visible files of the current directory

\* #define MAX_JOBS 64: the table's capacity, scaled to the model's bound so
\* that a full table is reachable.
MAX_JOBS == MaxJobs

\* The process group of the shell itself, getpgrp(); child pids lie above it.
ShellPgid == 1

ExitCodes == {0, 3}
Signals == {"SIGINT", "SIGTSTP"}
Pids == (ShellPgid + 1)..(ShellPgid + MaxPids)

VARIABLES
    pc,                  \* where the shell's main thread stands
    procs,               \* kernel: pid -> process record
    lead,                \* pid -> pid of command 0 of the pipeline it was forked for
    nextpid,             \* kernel: next pid fork() hands out
    pids,                \* execute_pipeline's pids[] / execute_command's pid
    wi,                  \* the wait loop's index i (1-based)
    last_status,         \* execute_pipeline's last_status
    fgjob,               \* builtin_fg's job_id
    jobs,                \* g_job_list: sequence of Job
    g_next_job_id,       \* jobs.c
    foreground_job_pid,  \* signals.c
    child_exited,        \* signals.c
    tty_pgrp,            \* kernel: foreground process group of the terminal
    ret,                 \* status the executor returned, read at the loop top
    run,                 \* what the executor did for the current line
    fwd,                 \* the last forward of a signal by a handler
    calls,               \* executor calls made for the current line
    created              \* every job_id jobs_add has assigned, in order

shell_vars == <<pc, procs, lead, nextpid, pids, wi, last_status, fgjob, jobs,
                g_next_job_id, foreground_job_pid, child_exited, tty_pgrp, ret,
                run, fwd, calls, created>>

\* The line editor's handling of the terminal (terminal.c).
VARIABLES
    term_mode,           \* terminal.c: TERM_MODE_NORMAL or TERM_MODE_RAW
    tty_settings,        \* kernel: the terminal's current termios
    orig_termios,        \* terminal.c: the settings saved by terminal_raw_mode
    ed_pc,               \* "out" of terminal_readline, or "reading" in its loop
    line_len,            \* terminal_readline's line_len
    pre_settings,        \* the terminal's settings when terminal_readline was entered
    ed_ret               \* the path by which terminal_readline last returned

editor_vars == <<term_mode, tty_settings, orig_termios, ed_pc, line_len,
                 pre_settings, ed_ret>>

\* The thread pool (threading.c).
VARIABLES
    queue,               \* pool->queue: slot -> task (0 for NULL)
    queue_size,          \* pool->queue_size
    queue_front,         \* pool->queue_front
    queue_rear,          \* pool->queue_rear
    shutdown,            \* pool->shutdown
    wpc,                 \* worker -> where it stands in thread_pool_worker
    wtask,               \* worker -> the ctx it dequeued
    cpc,                 \* client thread -> where it stands in the pool's API
    ctask,               \* client thread -> the ctx it is submitting
    submit_rc,           \* client thread -> what its last thread_pool_submit returned
    nexttask,            \* the next task a client will create
    executed,            \* task -> times a worker has run it
    pending,             \* the tasks in the queue when thread_pool_destroy was called
    join_i               \* thread_pool_destroy's index i into pool->threads

pool_vars == <<queue, queue_size, queue_front, queue_rear, shutdown, wpc, wtask,
               cpc, ctask, submit_rc, nexttask, executed, pending, join_i>>

\* The parsers of one input line and the loop's dispatch on their results.
VARIABLES
    main_pc,             \* where the loop is with the current line
    line,                \* the line read, a sequence of characters
    is_conditional,      \* what parse_conditional returned
    condition,           \* *condition, <<>> when NULL
    then_block,          \* *then_block, <<>> when NULL
    else_block,          \* *else_block, <<>> when NULL
    line_result,         \* how the loop disposed of the line
    ran,                 \* the argv of every command started for the line
    cond_status,         \* execute_conditional's local: the condition's status
    last_exit_status     \* the global of conditional.c

parse_vars == <<main_pc, line, is_conditional, condition, then_block, else_block,
                line_result, ran, cond_status, last_exit_status>>

\* The environment store.
VARIABLES
    bindings,            \* env->bindings[0 .. env->count - 1]
    env_mutex,           \* the thread holding env->env_mutex, 0 for none
    epc,                 \* thread -> where it is in its call
    eargs,               \* thread -> the name and value it passed
    eres,                \* thread -> what env_get returned to it
    last_op              \* the last env_set or env_unset that completed

env_vars == <<bindings, env_mutex, epc, eargs, eres, last_op>>

\* The command history and its file.
VARIABLES
    hist_pc,             \* where the shell is with its history
    history_entries,     \* history_entries[0 .. history_current_count - 1]
    hfile,               \* the lines of ~/.ushell_history on disk
    hfile_old,           \* the lines the file held before the last save began
    fp_buf,              \* lines in the buffer of history_save's stream
    save_i,              \* history_save's loop index, from 1
    added                \* the last history_add: its line, whether it
                         \* repeated the one before, the entries after the first

history_vars == <<hist_pc, history_entries, hfile, hfile_old, fp_buf, save_i, added>>

\* The evaluator of arithmetic expansions.
VARIABLES
    arith_pc,            \* whether an expansion has just been evaluated
    arith_expr,          \* the expression, a sequence of characters
    arith_result         \* what eval_arithmetic returned for it

arith_vars == <<arith_pc, arith_expr, arith_result>>

\* The parallel file search.
VARIABLES
    fd_pc,               \* where tool_myfd_main is
    fd_threads,          \* worker -> where it is, "none" before its creation
    fd_count,            \* g_work_queue.count
    g_active_threads,
    g_work_done,
    fd_i,                \* the index i of the create loop and of the join loop
    fd_dirs,             \* subdirectories still to be found
    fd_ret               \* what tool_myfd_main returned

fd_vars == <<fd_pc, fd_threads, fd_count, g_active_threads, g_work_done, fd_i,
             fd_dirs, fd_ret>>

\* History navigation in the line editor.
VARIABLES
    nav_pc,              \* "loop": between two prompts, "read": in terminal_readline
    history_position,    \* terminal.c's position, -1 when not navigating
    nav_position,        \* history.c's cursor, -1 when not navigating
    nav_line,            \* the line on display
    saved_line,          \* the line in progress, saved on the first Up
    keys                 \* the keys pressed since the prompt

nav_vars == <<nav_pc, history_position, nav_position, nav_line, saved_line, keys>>

\* Glob expansion of a command's arguments.
VARIABLES
    glob_pc,             \* "idle", "loop": in expand_globs_in_argv, "returned"
    glob_argv,           \* the arguments as tokenized
    glob_files,          \* the visible files of the current directory
    glob_i,              \* arguments gone through
    new_argc,            \* expand_globs_in_argv's new_argc
    slots_written        \* new_argv[0 .. slots_written - 1] have been written

glob_vars == <<glob_pc, glob_argv, glob_files, glob_i, new_argc, slots_written>>

vars == <<shell_vars, editor_vars, pool_vars, parse_vars, env_vars, history_vars,
          arith_vars, fd_vars, nav_vars, glob_vars>>

\* What the steps of each part of the program leave alone.
outside_shell ==
    <<editor_vars, pool_vars, parse_vars, env_vars, history_vars, arith_vars, fd_vars,
      nav_vars, glob_vars>>
outside_editor ==
    <<shell_vars, pool_vars, parse_vars, env_vars, history_vars, arith_vars, fd_vars,
      nav_vars, glob_vars>>
outside_pool ==
    <<shell_vars, editor_vars, parse_vars, env_vars, history_vars, arith_vars, fd_vars,
      nav_vars, glob_vars>>
outside_parse ==
    <<shell_vars, editor_vars, pool_vars, env_vars, history_vars, arith_vars, fd_vars,
      nav_vars, glob_vars>>
outside_env ==
    <<shell_vars, editor_vars, pool_vars, parse_vars, history_vars, arith_vars, fd_vars,
      nav_vars, glob_vars>>
outside_history ==
    <<shell_vars, editor_vars, pool_vars, parse_vars, env_vars, arith_vars, fd_vars,
      nav_vars, glob_vars>>
outside_arith ==
    <<shell_vars, editor_vars, pool_vars, parse_vars, env_vars, history_vars, fd_vars,
      nav_vars, glob_vars>>
outside_fd ==
    <<shell_vars, editor_vars, pool_vars, parse_vars, env_vars, history_vars,
      arith_vars, nav_vars, glob_vars>>
\* The history is left out: the navigation reads it.
outside_nav ==
    <<shell_vars, editor_vars, pool_vars, parse_vars, env_vars, arith_vars, fd_vars,
      glob_vars>>
outside_glob ==
    <<shell_vars, editor_vars, pool_vars, parse_vars, env_vars, history_vars,
      arith_vars, fd_vars, nav_vars>>

(***************************************************************************)
(* The line editor's handling of the terminal (terminal.c).                *)
(***************************************************************************)

\* static char line[1024], scaled to the model's line length.
SizeofLine == MaxLine + 1

\* The c_lflag bits terminal_raw_mode touches.
Termios == [echo : BOOLEAN, icanon : BOOLEAN, isig : BOOLEAN]

\* What the shell finds on a terminal nobody has touched.
Cooked == [echo |-> TRUE, icanon |-> TRUE, isig |-> TRUE]

\* raw.c_lflag &= ~(ECHO | ICANON | ISIG)
RawOf(t) == [t EXCEPT !.echo = FALSE, !.icanon = FALSE, !.isig = FALSE]

\* What a byte read by terminal_readline stands for.
Keys == {"char", "backspace", "other", "enter", "ctrl_c", "ctrl_d"}

EditorInit ==
    /\ term_mode = "NORMAL"
    /\ tty_settings = Cooked
    /\ orig_termios = Cooked
    /\ ed_pc = "out"
    /\ line_len = 0
    /\ pre_settings = Cooked
    /\ ed_ret = "none"

\* terminal_normal_mode leaving the terminal as it is.
terminal_normal_mode_keep(mode, tty, orig) == [mode |-> mode, tty |-> tty]

\* terminal_normal_mode: nothing to do in normal mode; else
\* tcsetattr(STDIN_FILENO, TCSAFLUSH, &orig_termios).
terminal_normal_mode(mode, tty, orig) ==
    IF mode = "NORMAL" THEN [mode |-> mode, tty |-> tty]
    ELSE [mode |-> "NORMAL", tty |-> orig]

\* terminal_raw_mode: tcgetattr saves the settings (got), tcsetattr applies
\* the raw ones (set); either may fail, and then -1 is returned.
terminal_raw_mode(mode, tty, orig, got, set) ==
    IF mode = "RAW" THEN [rc |-> 0, mode |-> mode, tty |-> tty, orig |-> orig]
    ELSE IF ~got THEN [rc |-> -1, mode |-> mode, tty |-> tty, orig |-> orig]
    ELSE IF ~set THEN [rc |-> -1, mode |-> mode, tty |-> tty, orig |-> tty]
    ELSE [rc |-> 0, mode |-> "RAW", tty |-> RawOf(tty), orig |-> tty]

\* terminal_readline on a terminal, up to its read loop.
EnterEditor(got, set) ==
    /\ ed_pc = "out"
    /\ LET r == terminal_raw_mode(term_mode, tty_settings, orig_termios, got, set)
       IN /\ term_mode' = r.mode
          /\ tty_settings' = r.tty
          /\ orig_termios' = r.orig
          /\ ed_pc' = IF r.rc = -1 THEN "out" ELSE "reading"
          /\ ed_ret' = IF r.rc = -1 THEN "raw_failed" ELSE "none"
    /\ pre_settings' = tty_settings
    /\ line_len' = 0
    /\ UNCHANGED outside_editor

\* A return of terminal_readline from its loop, by path how.
LeaveEditor(how) ==
    LET r == terminal_normal_mode(term_mode, tty_settings, orig_termios)
    IN /\ term_mode' = r.mode
       /\ tty_settings' = r.tty
       /\ ed_pc' = "out"
       /\ ed_ret' = how
       /\ UNCHANGED <<orig_termios, line_len, pre_settings>>

\* One turn of the read loop: read() fails or meets end of file, or gives
\* the byte of key k.
ReadKey(k, ok) ==
    /\ ed_pc = "reading"
    /\ CASE ~ok -> LeaveEditor("read_failed")
         [] ok /\ k = "ctrl_d" /\ line_len = 0 -> LeaveEditor("ctrl_d")
         [] ok /\ k = "ctrl_c" -> LeaveEditor("ctrl_c")
         [] ok /\ k = "enter" -> LeaveEditor("enter")
         [] ok /\ k = "backspace" ->
               /\ line_len' = IF line_len > 0 THEN line_len - 1 ELSE line_len
               /\ UNCHANGED <<term_mode, tty_settings, orig_termios, ed_pc,
                              pre_settings, ed_ret>>
         [] ok /\ k = "char" ->
               /\ line_len' = IF line_len < SizeofLine - 1 THEN line_len + 1
                               ELSE line_len
               /\ UNCHANGED <<term_mode, tty_settings, orig_termios, ed_pc,
                              pre_settings, ed_ret>>
         [] OTHER -> UNCHANGED editor_vars
    /\ UNCHANGED outside_editor

\* Between two prompts a command (stty, a full-screen program) leaves the
\* terminal with settings t.
SttyChange(t) ==
    /\ ed_pc = "out"
    /\ t # tty_settings
    /\ tty_settings' = t
    /\ ed_ret' = "none"
    /\ UNCHANGED <<term_mode, orig_termios, ed_pc, line_len, pre_settings>>
    /\ UNCHANGED outside_editor

NextEditor ==
    \/ \E got \in BOOLEAN, set \in BOOLEAN : EnterEditor(got, set)
    \/ \E k \in Keys, ok \in BOOLEAN : ReadKey(k, ok)
    \/ \E t \in Termios : SttyChange(t)

(***************************************************************************)
(* The thread pool (threading.c). Everything a thread does between         *)
(* pthread_mutex_lock and the next pthread_mutex_unlock or pthread_cond_wait *)
(* is one step: queue_mutex makes it atomic for every other thread.        *)
(***************************************************************************)

\* thread_pool_create(num_threads, queue_capacity)
num_threads == MaxWorkers
queue_capacity == MaxQueue

Workers == 1..num_threads
Clients == 1..MaxClients
Tasks == 1..MaxTasks
Slots == 0..(queue_capacity - 1)

\* The state thread_pool_create returns: an empty queue, the workers started.
PoolInit ==
    /\ queue = [i \in Slots |-> 0]
    /\ queue_size = 0
    /\ queue_front = 0
    /\ queue_rear = 0
    /\ shutdown = 0
    /\ wpc = [w \in Workers |-> "ready"]
    /\ wtask = [w \in Workers |-> 0]
    /\ cpc = [c \in Clients |-> "idle"]
    /\ ctask = [c \in Clients |-> 0]
    /\ submit_rc = [c \in Clients |-> 0]
    /\ nexttask = 1
    /\ executed = [t \in Tasks |-> 0]
    /\ pending = {}
    /\ join_i = 0

\* The tasks between queue_front and queue_rear.
Queued == {queue[(queue_front + k) % queue_capacity] : k \in 0..(queue_size - 1)}

\* The threads blocked in pthread_cond_wait on work_done and on work_available.
OnWorkDone == {c \in Clients : cpc[c] \in {"submit_waiting", "wait_waiting"}}
OnWorkAvailable == {w \in Workers : wpc[w] = "waiting"}

\* A client woken from work_done goes back to the test of its while loop.
Woken(c) == IF cpc[c] = "submit_waiting" THEN "submit" ELSE "wait"

\* pthread_cond_signal(&pool->work_done): one of the waiting threads, if any.
SignalWorkDone(c) ==
    IF OnWorkDone = {} THEN cpc' = cpc
    ELSE c \in OnWorkDone /\ cpc' = [cpc EXCEPT ![c] = Woken(c)]

\* The worker leaving as soon as the pool shuts down.
WorkerExits_early(sd, size) == sd = 1

\* if (pool->shutdown && pool->queue_size == 0) break;
WorkerExits(sd, size) == sd = 1 /\ size = 0

\* thread_pool_worker, from pthread_mutex_lock to the unlock or the wait.
thread_pool_worker(w, c) ==
    /\ wpc[w] = "ready"
    /\ IF queue_size = 0 /\ shutdown = 0
       THEN /\ wpc' = [wpc EXCEPT ![w] = "waiting"]
            /\ c = 1
            /\ UNCHANGED <<queue_front, queue_size, wtask, cpc>>
       ELSE IF WorkerExits(shutdown, queue_size)
       THEN /\ wpc' = [wpc EXCEPT ![w] = "exited"]
            /\ c = 1
            /\ UNCHANGED <<queue_front, queue_size, wtask, cpc>>
       ELSE /\ wtask' = [wtask EXCEPT ![w] = queue[queue_front]]
            /\ queue_front' = (queue_front + 1) % queue_capacity
            /\ queue_size' = queue_size - 1
            /\ SignalWorkDone(c)
            /\ (OnWorkDone = {} => c = 1)
            /\ wpc' = [wpc EXCEPT ![w] = "exec"]
    /\ UNCHANGED <<queue, queue_rear, shutdown, ctask, submit_rc, nexttask,
                   executed, pending, join_i>>
    /\ UNCHANGED outside_pool

\* thread_pool_worker: ctx->func(ctx->argv, ctx->env); ctx->completed = 1.
WorkerRun(w) ==
    /\ wpc[w] = "exec"
    /\ executed' = IF wtask[w] # 0 THEN [executed EXCEPT ![wtask[w]] = @ + 1]
                   ELSE executed
    /\ wpc' = [wpc EXCEPT ![w] = "ready"]
    /\ UNCHANGED <<queue, queue_size, queue_front, queue_rear, shutdown, wtask,
                   cpc, ctask, submit_rc, nexttask, pending, join_i>>
    /\ UNCHANGED outside_pool

\* No thread_pool_destroy has begun: the pool may be used.
PoolAlive == \A c \in Clients : cpc[c] \notin {"broadcast", "join", "destroyed"}

\* A submit that does not wait for room in the queue.
SubmitBody_nowait(c, w) ==
    /\ queue' = [queue EXCEPT ![queue_rear] = ctask'[c]]
    /\ queue_rear' = (queue_rear + 1) % queue_capacity
    /\ queue_size' = queue_size + 1
    /\ IF OnWorkAvailable = {} THEN w = 1 /\ wpc' = wpc
       ELSE w \in OnWorkAvailable /\ wpc' = [wpc EXCEPT ![w] = "ready"]
    /\ cpc' = [cpc EXCEPT ![c] = "idle"]
    /\ submit_rc' = [submit_rc EXCEPT ![c] = 0]

\* thread_pool_submit from the test of its while loop on.
SubmitBody(c, w) ==
    IF queue_size = queue_capacity /\ shutdown = 0
    THEN /\ cpc' = [cpc EXCEPT ![c] = "submit_waiting"]
         /\ w = 1
         /\ UNCHANGED <<queue, queue_size, queue_rear, wpc, submit_rc>>
    ELSE IF shutdown = 1
    THEN /\ cpc' = [cpc EXCEPT ![c] = "idle"]
         /\ submit_rc' = [submit_rc EXCEPT ![c] = -1]
         /\ w = 1
         /\ UNCHANGED <<queue, queue_size, queue_rear, wpc>>
    ELSE /\ queue' = [queue EXCEPT ![queue_rear] = ctask'[c]]
         /\ queue_rear' = (queue_rear + 1) % queue_capacity
         /\ queue_size' = queue_size + 1
         /\ IF OnWorkAvailable = {} THEN w = 1 /\ wpc' = wpc
            ELSE w \in OnWorkAvailable /\ wpc' = [wpc EXCEPT ![w] = "ready"]
         /\ cpc' = [cpc EXCEPT ![c] = "idle"]
         /\ submit_rc' = [submit_rc EXCEPT ![c] = 0]

\* A client calls thread_pool_submit with a new task.
thread_pool_submit(c, w) ==
    /\ cpc[c] = "idle"
    /\ PoolAlive
    /\ nexttask <= MaxTasks
    /\ ctask' = [ctask EXCEPT ![c] = nexttask]
    /\ nexttask' = nexttask + 1
    /\ SubmitBody(c, w)
    /\ UNCHANGED <<queue_front, shutdown, wtask, executed, pending, join_i>>
    /\ UNCHANGED outside_pool

\* A submitter woken from work_done has the mutex again and tests again.
SubmitWoken(c, w) ==
    /\ cpc[c] = "submit"
    /\ ctask' = ctask
    /\ SubmitBody(c, w)
    /\ UNCHANGED <<queue_front, shutdown, wtask, nexttask, executed, pending, join_i>>
    /\ UNCHANGED outside_pool

\* thread_pool_wait: while (pool->queue_size > 0) pthread_cond_wait(work_done),
\* entered by a call or by a wakeup.
thread_pool_wait(c) ==
    /\ \/ cpc[c] = "idle" /\ PoolAlive
       \/ cpc[c] = "wait"
    /\ cpc' = [cpc EXCEPT ![c] = IF queue_size > 0 THEN "wait_waiting" ELSE "returned"]
    /\ UNCHANGED <<queue, queue_size, queue_front, queue_rear, shutdown, wpc, wtask,
                   ctask, submit_rc, nexttask, executed, pending, join_i>>
    /\ UNCHANGED outside_pool

\* The caller of thread_pool_wait goes on.
WaitReturned(c) ==
    /\ cpc[c] = "returned"
    /\ cpc' = [cpc EXCEPT ![c] = "idle"]
    /\ UNCHANGED <<queue, queue_size, queue_front, queue_rear, shutdown, wpc, wtask,
                   ctask, submit_rc, nexttask, executed, pending, join_i>>
    /\ UNCHANGED outside_pool

\* thread_pool_destroy: pool->shutdown = 1 under the mutex. It is called
\* when no other thread is inside a call on the pool.
thread_pool_destroy(c) ==
    /\ PoolAlive
    /\ \A d \in Clients : cpc[d] = "idle"
    /\ shutdown' = 1
    /\ pending' = Queued
    /\ cpc' = [cpc EXCEPT ![c] = "broadcast"]
    /\ UNCHANGED <<queue, queue_size, queue_front, queue_rear, wpc, wtask, ctask,
                   submit_rc, nexttask, executed, join_i>>
    /\ UNCHANGED outside_pool

\* thread_pool_destroy: pthread_cond_broadcast(&pool->work_available).
DestroyBroadcast(c) ==
    /\ cpc[c] = "broadcast"
    /\ wpc' = [w \in Workers |-> IF wpc[w] = "waiting" THEN "ready" ELSE wpc[w]]
    /\ cpc' = [cpc EXCEPT ![c] = "join"]
    /\ join_i' = 1
    /\ UNCHANGED <<queue, queue_size, queue_front, queue_rear, shutdown, wtask,
                   ctask, submit_rc, nexttask, executed, pending>>
    /\ UNCHANGED outside_pool

\* thread_pool_destroy: pthread_join(pool->threads[i]) for each worker, then
\* the pool is freed.
DestroyJoin(c) ==
    /\ cpc[c] = "join"
    /\ IF join_i > num_threads
       THEN cpc' = [cpc EXCEPT ![c] = "destroyed"] /\ UNCHANGED join_i
       ELSE wpc[join_i] = "exited" /\ join_i' = join_i + 1 /\ UNCHANGED cpc
    /\ UNCHANGED <<queue, queue_size, queue_front, queue_rear, shutdown, wpc, wtask,
                   ctask, submit_rc, nexttask, executed, pending>>
    /\ UNCHANGED outside_pool

\* The steps a worker thread takes by itself once scheduled.
WorkerStep(w) ==
    \/ \E c \in Clients : thread_pool_worker(w, c)
    \/ WorkerRun(w)

\* The steps a client thread takes once it is inside a call on the pool.
ClientStep(c) ==
    \/ \E w \in Workers : SubmitWoken(c, w)
    \/ cpc[c] = "wait" /\ thread_pool_wait(c)
    \/ WaitReturned(c)
    \/ DestroyBroadcast(c)
    \/ DestroyJoin(c)

NextPool ==
    \/ \E w \in Workers, c \in Clients : thread_pool_worker(w, c)
    \/ \E w \in Workers : WorkerRun(w)
    \/ \E c \in Clients, w \in Workers : thread_pool_submit(c, w)
    \/ \E c \in Clients, w \in Workers : SubmitWoken(c, w)
    \/ \E c \in Clients : thread_pool_wait(c)
    \/ \E c \in Clients : WaitReturned(c)
    \/ \E c \in Clients : thread_pool_destroy(c)
    \/ \E c \in Clients : DestroyBroadcast(c)
    \/ \E c \in Clients : DestroyJoin(c)

(***************************************************************************)
(* The parsers of one input line: parse_conditional and its helpers        *)
(* (conditional.c), parse_pipeline and tokenize_command (executor.c), and  *)
(* the dispatch of main.c that applies them. A string is a sequence of     *)
(* characters, a char* is an index into it, and NULL is the index 0.       *)
(***************************************************************************)

NUL == "NUL"
NULL == 0

kw_if == <<"i", "f">>
kw_then == <<"t", "h", "e", "n">>
kw_else == <<"e", "l", "s", "e">>
kw_fi == <<"f", "i">>

\* The words input lines are made of: the keywords, two ordinary command
\* words and the pipe sign.
Words == {kw_if, kw_then, kw_else, kw_fi, <<"a">>, <<"w", "i", "f", "i">>, <<"|">>}

RECURSIVE Join(_)
Join(ws) ==
    IF Len(ws) = 0 THEN <<>>
    ELSE IF Len(ws) = 1 THEN ws[1]
    ELSE ws[1] \o <<" ">> \o Join(Tail(ws))

\* The lines a user types: 1..MaxWords words separated by single blanks.
WordSeqs == UNION {[1..n -> Words] : n \in 1..MaxWords}

\* *(s + i - 1): the character at a pointer, the terminator past the end.
At(s, i) == IF i \in 1..Len(s) THEN s[i] ELSE NUL

isspace(c) == c \in {" ", "\t", "\n"}
is_delimiter(c) == c \in {" ", "\t", "\n"}

RECURSIVE skip_whitespace(_, _)
skip_whitespace(s, i) ==
    IF At(s, i) # NUL /\ isspace(At(s, i)) THEN skip_whitespace(s, i + 1) ELSE i

\* strncmp(s + i - 1, kw, strlen(kw)) == 0
strncmp_eq(s, i, kw) == \A k \in 1..Len(kw) : At(s, i + k - 1) = kw[k]

\* The keyword is looked for at every position; only the character after
\* it is checked for a word boundary.
RECURSIVE find_keyword(_, _, _)
find_keyword(s, i, kw) ==
    IF At(s, i) = NUL THEN NULL
    ELSE IF /\ strncmp_eq(s, i, kw)
            /\ (At(s, i + Len(kw)) = NUL \/ isspace(At(s, i + Len(kw))))
         THEN i
    ELSE find_keyword(s, i + 1, kw)

\* The loops that cut trailing white space off an extracted block.
RECURSIVE TrimTrailing(_)
TrimTrailing(s) ==
    IF Len(s) > 0 /\ isspace(s[Len(s)]) THEN TrimTrailing(SubSeq(s, 1, Len(s) - 1))
    ELSE s

\* The text between two pointers, strncpy(dst, from, to - from), trimmed.
Extract(s, from, to) == TrimTrailing(SubSeq(s, from, to - 1))

NoConditional(rc) ==
    [rc |-> rc, condition |-> <<>>, then_block |-> <<>>, else_block |-> <<>>]

parse_conditional(s) ==
    LET ptr0 == skip_whitespace(s, 1)
        ptr1 == skip_whitespace(s, ptr0 + 2)
        then_ptr == find_keyword(s, ptr1, kw_then)
        ptr2 == skip_whitespace(s, then_ptr + 4)
        else_ptr == find_keyword(s, ptr2, kw_else)
        fi_ptr == find_keyword(s, ptr2, kw_fi)
        ptr3 == skip_whitespace(s, else_ptr + 4)
    IN  IF ~strncmp_eq(s, ptr0, kw_if)
           \/ (~isspace(At(s, ptr0 + 2)) /\ At(s, ptr0 + 2) # NUL)
        THEN NoConditional(0)
        ELSE IF then_ptr = NULL THEN NoConditional(-1)
        ELSE IF fi_ptr = NULL THEN NoConditional(-1)
        ELSE IF else_ptr # NULL /\ else_ptr < fi_ptr
        THEN [rc |-> 1,
              condition |-> Extract(s, ptr1, then_ptr),
              then_block |-> Extract(s, ptr2, else_ptr),
              else_block |-> Extract(s, ptr3, fi_ptr)]
        ELSE [rc |-> 1,
              condition |-> Extract(s, ptr1, then_ptr),
              then_block |-> Extract(s, ptr2, fi_ptr),
              else_block |-> <<>>]

\* while (end > line_copy && is_delimiter(*end)) end--;
RECURSIVE BackOver(_, _)
BackOver(s, e) == IF e > 1 /\ is_delimiter(s[e]) THEN BackOver(s, e - 1) ELSE e

\* The trailing & of a background line is cut off, with the blanks before it.
StripBackground(s) ==
    LET e == BackOver(s, Len(s))
    IN  IF e > 1 /\ s[e] = "&"
        THEN [background |-> TRUE, line_copy |-> SubSeq(s, 1, BackOver(s, e - 1))]
        ELSE [background |-> FALSE, line_copy |-> s]

\* The segments between the | characters: one more than there are pipes.
RECURSIVE Segments(_)
Segments(s) ==
    IF \E i \in 1..Len(s) : s[i] = "|"
    THEN LET i == CHOOSE k \in 1..Len(s) :
                      s[k] = "|" /\ \A j \in 1..(k - 1) : s[j] # "|"
         IN  <<SubSeq(s, 1, i - 1)>> \o Segments(SubSeq(s, i + 1, Len(s)))
    ELSE <<s>>

RECURSIVE SkipDelimiters(_, _)
SkipDelimiters(s, i) ==
    IF is_delimiter(At(s, i)) THEN SkipDelimiters(s, i + 1) ELSE i

RECURSIVE TokenEnd(_, _)
TokenEnd(s, i) ==
    IF At(s, i) # NUL /\ ~is_delimiter(At(s, i)) THEN TokenEnd(s, i + 1) ELSE i

\* The tokens of a segment; an empty segment gives an argv of just NULL,
\* the empty sequence here. The lines of the model carry no quotes.
RECURSIVE tokenize_command(_)
tokenize_command(s) ==
    LET start == SkipDelimiters(s, 1)
    IN  IF At(s, start) = NUL THEN <<>>
        ELSE <<SubSeq(s, start, TokenEnd(s, start) - 1)>>
             \o tokenize_command(SubSeq(s, TokenEnd(s, start), Len(s)))

\* parse_pipeline fails only when an allocation fails (alloc_ok false); the
\* lines of the model carry no redirection and no glob character.
parse_pipeline(s, alloc_ok) ==
    IF ~alloc_ok THEN [rc |-> -1, commands |-> <<>>, count |-> 0]
    ELSE LET b == StripBackground(s)
             segs == Segments(b.line_copy)
         IN  [rc |-> 0,
              commands |-> [i \in 1..Len(segs) |->
                              [argv |-> tokenize_command(segs[i]),
                               background |-> b.background]],
              count |-> Len(segs)]

\* The commands execute_pipeline starts: a lone command with an empty argv
\* is refused by execute_command, and in a longer pipeline the child of an
\* empty argv runs no command.
Started(commands) ==
    [i \in 1..Len(SelectSeq(commands, LAMBDA c : c.argv # <<>>)) |->
        SelectSeq(commands, LAMBDA c : c.argv # <<>>)[i].argv]

\* The status execute_pipeline returns, st being what the children made it.
execute_pipeline(commands, count, st) ==
    IF count <= 0 THEN -1
    ELSE IF count = 1 /\ ~commands[1].background /\ commands[1].argv = <<>> THEN -1
    ELSE IF commands[1].background THEN 0
    ELSE st

\* The block execute_conditional picks: the one the condition did not
\* select.
block_to_execute_swapped(status, tb, eb) ==
    IF status # 0 THEN "then" ELSE IF Len(eb) > 0 THEN "else" ELSE "none"

\* The block execute_conditional picks from the condition's status; an
\* else-block that is NULL or empty is no block.
block_to_execute(status, tb, eb) ==
    IF status = 0 THEN "then" ELSE IF Len(eb) > 0 THEN "else" ELSE "none"

Statuses == {0, 1}

ParseInit ==
    /\ main_pc = "read"
    /\ line = <<>>
    /\ is_conditional = 0
    /\ condition = <<>>
    /\ then_block = <<>>
    /\ else_block = <<>>
    /\ line_result = "none"
    /\ ran = <<>>
    /\ cond_status = 0
    /\ last_exit_status = 0

\* terminal_readline hands the loop a line; the empty line is skipped.
ReadLine ==
    /\ main_pc = "read"
    /\ main_pc' = "line"
    /\ \E ws \in WordSeqs : line' = Join(ws)
    /\ UNCHANGED <<is_conditional, condition, then_block, else_block, line_result,
                   ran, cond_status, last_exit_status>>
    /\ UNCHANGED outside_parse

\* A command text, with the & that puts it in the background.
WithAmp(s, bg) == IF bg THEN s \o <<" ", "&">> ELSE s

\* The conditional lines a user types: if c then t [else e] fi, where any
\* of the three commands, and the line itself, may end in an &.
ConditionalLine(cbg, tbg, has_else, ebg, lbg) ==
    WithAmp(kw_if \o <<" ">> \o WithAmp(<<"c">>, cbg) \o <<" ">>
              \o kw_then \o <<" ">> \o WithAmp(<<"t">>, tbg) \o <<" ">>
              \o (IF has_else
                  THEN kw_else \o <<" ">> \o WithAmp(<<"e">>, ebg) \o <<" ">>
                  ELSE <<>>)
              \o kw_fi,
            lbg)

\* terminal_readline hands the loop a conditional line.
ReadConditional ==
    /\ main_pc = "read"
    /\ main_pc' = "line"
    /\ \E cbg \in BOOLEAN, tbg \in BOOLEAN, has_else \in BOOLEAN,
          ebg \in BOOLEAN, lbg \in BOOLEAN :
            line' = ConditionalLine(cbg, tbg, has_else, ebg, lbg)
    /\ UNCHANGED <<is_conditional, condition, then_block, else_block, line_result,
                   ran, cond_status, last_exit_status>>
    /\ UNCHANGED outside_parse

\* The dispatch of the loop: parse_conditional first, then for a line that
\* is no conditional parse_pipeline and execute_pipeline.
ParseLine(alloc_ok, st) ==
    /\ main_pc = "line"
    /\ LET c == parse_conditional(line)
           p == parse_pipeline(line, alloc_ok)
       IN  /\ is_conditional' = c.rc
           /\ condition' = c.condition
           /\ then_block' = c.then_block
           /\ else_block' = c.else_block
           /\ IF c.rc = 1
              THEN /\ main_pc' = "conditional"
                   /\ UNCHANGED <<line_result, ran, last_exit_status>>
              ELSE IF c.rc = 0 /\ p.rc >= 0
              THEN /\ main_pc' = "prompt"
                   /\ line_result' = "executed"
                   /\ ran' = Started(p.commands)
                   /\ last_exit_status' = execute_pipeline(p.commands, p.count, st)
              ELSE /\ main_pc' = "prompt"
                   /\ line_result' = "parse_error"
                   /\ UNCHANGED <<ran, last_exit_status>>
    /\ UNCHANGED <<line, cond_status>>
    /\ UNCHANGED outside_parse

\* execute_conditional: the condition is run as a pipeline, then the block
\* its status selects, again as a pipeline.
ExecuteConditional(cond_ok, cond_st, block_ok, block_st) ==
    /\ main_pc = "conditional"
    /\ main_pc' = "prompt"
    /\ LET cp == parse_pipeline(condition, cond_ok)
           status == IF cp.count > 0
                     THEN execute_pipeline(cp.commands, cp.count, cond_st)
                     ELSE -1
           which == block_to_execute(status, then_block, else_block)
           bp == parse_pipeline(IF which = "then" THEN then_block ELSE else_block,
                                block_ok)
       IN  IF cp.rc < 0
           THEN /\ line_result' = "failed"
                /\ last_exit_status' = -1
                /\ UNCHANGED <<ran, cond_status>>
           ELSE /\ cond_status' = status
                /\ IF which = "none"
                   THEN /\ line_result' = "executed"
                        /\ last_exit_status' = status
                        /\ ran' = Started(cp.commands)
                   ELSE IF bp.rc < 0
                   THEN /\ line_result' = "failed"
                        /\ last_exit_status' = -1
                        /\ ran' = Started(cp.commands)
                   ELSE /\ line_result' = "executed"
                        /\ last_exit_status' =
                               execute_pipeline(bp.commands, bp.count, block_st)
                        /\ ran' = Started(cp.commands) \o Started(bp.commands)
    /\ UNCHANGED <<line, is_conditional, condition, then_block, else_block>>
    /\ UNCHANGED outside_parse

\* The loop comes round: the line and what was parsed from it are freed.
NextLine ==
    /\ main_pc = "prompt"
    /\ main_pc' = "read"
    /\ line' = <<>>
    /\ is_conditional' = 0
    /\ condition' = <<>>
    /\ then_block' = <<>>
    /\ else_block' = <<>>
    /\ line_result' = "none"
    /\ ran' = <<>>
    /\ cond_status' = 0
    /\ UNCHANGED last_exit_status
    /\ UNCHANGED outside_parse

NextParse ==
    \/ ReadLine
    \/ \E alloc_ok \in BOOLEAN, st \in Statuses : ParseLine(alloc_ok, st)
    \/ \E cond_ok \in BOOLEAN, cond_st \in Statuses,
          block_ok \in BOOLEAN, block_st \in Statuses :
            ExecuteConditional(cond_ok, cond_st, block_ok, block_st)
    \/ NextLine

\* The loop fed with conditional lines.
NextConditional ==
    \/ ReadConditional
    \/ \E alloc_ok \in BOOLEAN, st \in Statuses : ParseLine(alloc_ok, st)
    \/ \E cond_ok \in BOOLEAN, cond_st \in Statuses,
          block_ok \in BOOLEAN, block_st \in Statuses :
            ExecuteConditional(cond_ok, cond_st, block_ok, block_st)
    \/ NextLine

(***************************************************************************)
(* The environment store (environment.c) and the threads that call it.     *)
(***************************************************************************)

\* #define MAX_VARS 100, scaled to the model's bound so that a full store
\* is reachable.
MAX_VARS == MaxVars

EnvThreads == 1..MaxEnvThreads
Names == {"x", "y"}
Values == {"1", "2"}
Absent == "absent"

\* getenv(name): the ambient process environment, which binds y only.
getenv(name) == IF name = "y" THEN "2" ELSE Absent

\* The index of the first binding of the name, 0 when there is none.
env_find(b, name) ==
    IF \E i \in 1..Len(b) : b[i].name = name
    THEN CHOOSE i \in 1..Len(b) :
            b[i].name = name /\ \A j \in 1..(i - 1) : b[j].name # name
    ELSE 0

\* env_get's result under the lock, with the fallback to getenv.
env_get(b, name) ==
    IF env_find(b, name) # 0 THEN b[env_find(b, name)].value ELSE getenv(name)

\* A store that never replaces a value: a binding is added while there is
\* room.
env_set_append(b, name, value) ==
    IF Len(b) >= MAX_VARS THEN b
    ELSE Append(b, [name |-> name, value |-> value])

\* env_set: the first binding of the name gets the new value; a new name is
\* appended, or dropped with a message when the store is full.
env_set(b, name, value) ==
    IF env_find(b, name) # 0
    THEN [b EXCEPT ![env_find(b, name)].value = value]
    ELSE IF Len(b) >= MAX_VARS THEN b
    ELSE Append(b, [name |-> name, value |-> value])

\* env_unset: the first binding of the name is removed and the later ones
\* are shifted down.
env_unset(b, name) ==
    IF env_find(b, name) # 0
    THEN SubSeq(b, 1, env_find(b, name) - 1)
         \o SubSeq(b, env_find(b, name) + 1, Len(b))
    ELSE b

NoArgs == [name |-> "x", value |-> "1"]
NoResult == [name |-> "x", value |-> Absent, after |-> "none", expect |-> Absent]
NoOp == [op |-> "none", name |-> "x", value |-> "1"]

EnvInit ==
    /\ bindings = <<>>
    /\ env_mutex = 0
    /\ epc = [t \in EnvThreads |-> "idle"]
    /\ eargs = [t \in EnvThreads |-> NoArgs]
    /\ eres = [t \in EnvThreads |-> NoResult]
    /\ last_op = NoOp

\* A thread calls env_get, env_set or env_unset and takes the mutex.
EnvLock(t, op, name, value) ==
    /\ epc[t] = "idle"
    /\ env_mutex = 0
    /\ env_mutex' = t
    /\ epc' = [epc EXCEPT ![t] = op]
    /\ eargs' = [eargs EXCEPT ![t] = [name |-> name,
                                      value |-> IF op = "set" THEN value ELSE "1"]]
    /\ UNCHANGED <<bindings, eres, last_op>>
    /\ UNCHANGED outside_env

\* env_get under the lock: the pointer to the stored value is returned and
\* the mutex released; the caller reads the string after that.
EnvGet(t) ==
    /\ epc[t] = "get"
    /\ env_mutex = t
    /\ eres' = [eres EXCEPT ![t] =
                  [name |-> eargs[t].name,
                   value |-> env_get(bindings, eargs[t].name),
                   after |-> IF last_op.name = eargs[t].name THEN last_op.op
                             ELSE "none",
                   expect |-> last_op.value]]
    /\ env_mutex' = 0
    /\ epc' = [epc EXCEPT ![t] = "use"]
    /\ UNCHANGED <<bindings, eargs, last_op>>
    /\ UNCHANGED outside_env

\* The caller has read the value env_get returned.
EnvUsed(t) ==
    /\ epc[t] = "use"
    /\ epc' = [epc EXCEPT ![t] = "idle"]
    /\ eres' = [eres EXCEPT ![t] = NoResult]
    /\ UNCHANGED <<bindings, env_mutex, eargs, last_op>>
    /\ UNCHANGED outside_env

\* env_set under the lock.
EnvSet(t) ==
    /\ epc[t] = "set"
    /\ env_mutex = t
    /\ bindings' = env_set(bindings, eargs[t].name, eargs[t].value)
    /\ last_op' = [op |-> IF env_find(bindings, eargs[t].name) = 0
                             /\ Len(bindings) >= MAX_VARS
                          THEN "dropped" ELSE "set",
                   name |-> eargs[t].name, value |-> eargs[t].value]
    /\ env_mutex' = 0
    /\ epc' = [epc EXCEPT ![t] = "idle"]
    /\ UNCHANGED <<eargs, eres>>
    /\ UNCHANGED outside_env

\* env_unset under the lock.
EnvUnset(t) ==
    /\ epc[t] = "unset"
    /\ env_mutex = t
    /\ bindings' = env_unset(bindings, eargs[t].name)
    /\ last_op' = [op |-> "unset", name |-> eargs[t].name, value |-> "1"]
    /\ env_mutex' = 0
    /\ epc' = [epc EXCEPT ![t] = "idle"]
    /\ UNCHANGED <<eargs, eres>>
    /\ UNCHANGED outside_env

NextEnv ==
    \/ \E t \in EnvThreads, op \in {"get", "set", "unset"},
          name \in Names, value \in Values : EnvLock(t, op, name, value)
    \/ \E t \in EnvThreads : EnvGet(t)
    \/ \E t \in EnvThreads : EnvUsed(t)
    \/ \E t \in EnvThreads : EnvSet(t)
    \/ \E t \in EnvThreads : EnvUnset(t)

(***************************************************************************)
(* The command history (history.c) and its file.                           *)
(***************************************************************************)

\* #define HISTORY_SIZE 1000, scaled to the model's bound so that a full
\* history is reachable.
HISTORY_SIZE == MaxHistory

HistoryLines == {"a", "b"}

\* What the history file may hold when the shell starts: lines, some of them
\* empty.
RECURSIVE SeqsUpTo(_, _)
SeqsUpTo(S, n) ==
    IF n = 0 THEN {<<>>}
    ELSE SeqsUpTo(S, n - 1) \cup {Append(q, e) : q \in SeqsUpTo(S, n - 1), e \in S}

HistoryFiles == SeqsUpTo(HistoryLines \cup {""}, MaxHistory + 1)

\* history_load: the lines of the file are appended while there is room;
\* empty lines are skipped. strdup is taken to succeed.
RECURSIVE history_load(_, _)
history_load(h, f) ==
    IF Len(f) = 0 \/ Len(h) >= HISTORY_SIZE THEN h
    ELSE history_load(IF f[1] # "" THEN Append(h, f[1]) ELSE h, Tail(f))

\* A history that adds every line, a repeated one too.
history_add_always(h, x) ==
    IF x = "" THEN h
    ELSE IF Len(h) >= HISTORY_SIZE THEN Append(Tail(h), x)
    ELSE Append(h, x)

\* history_add: nothing for an empty line or a repeat of the newest entry;
\* a full history drops its oldest entry. strdup is taken to succeed.
history_add(h, x) ==
    IF x = "" THEN h
    ELSE IF Len(h) > 0 /\ h[Len(h)] = x THEN h
    ELSE IF Len(h) >= HISTORY_SIZE THEN Append(Tail(h), x)
    ELSE Append(h, x)

NoAdd == [line |-> "", twice |-> FALSE, once |-> <<>>]

HistoryInit ==
    /\ hist_pc = "start"
    /\ history_entries = <<>>
    /\ hfile = <<>>
    /\ hfile_old = <<>>
    /\ fp_buf = <<>>
    /\ save_i = 0
    /\ added = NoAdd

\* main.c:700-701: history_init(); history_load(HISTORY_FILE), f being what
\* the file holds at that time.
HistoryLoad(f) ==
    /\ hist_pc = "start"
    /\ hist_pc' = "ready"
    /\ hfile' = f
    /\ hfile_old' = f
    /\ history_entries' = history_load(<<>>, f)
    /\ UNCHANGED <<fp_buf, save_i, added>>
    /\ UNCHANGED outside_history

\* main.c:812: the line read is added to the history.
HistoryAdd(x) ==
    /\ hist_pc = "ready"
    /\ history_entries' = history_add(history_entries, x)
    /\ added' = [line |-> x,
                 twice |-> added.line = x,
                 once |-> IF added.line = x THEN added.once
                          ELSE history_add(history_entries, x)]
    /\ UNCHANGED <<hist_pc, hfile, hfile_old, fp_buf, save_i>>
    /\ UNCHANGED outside_history

\* The history built-in's clear.
HistoryClear ==
    /\ hist_pc = "ready"
    /\ history_entries' = <<>>
    /\ added' = NoAdd
    /\ UNCHANGED <<hist_pc, hfile, hfile_old, fp_buf, save_i>>
    /\ UNCHANGED outside_history

\* history_save, fopen(filepath, "w"): the file is cut to no length at once.
\* A failed fopen leaves the file alone and ends the save.
SaveOpen(ok) ==
    /\ hist_pc = "ready"
    /\ hfile_old' = hfile
    /\ IF ok
       THEN /\ hist_pc' = "saving"
            /\ hfile' = <<>>
            /\ save_i' = 1
       ELSE /\ hist_pc' = "saved"
            /\ UNCHANGED <<hfile, save_i>>
    /\ fp_buf' = <<>>
    /\ added' = NoAdd
    /\ UNCHANGED history_entries
    /\ UNCHANGED outside_history

\* One fprintf of the loop: the line goes to the stream's buffer, which the
\* library may write out to the file at any such point.
SaveWrite(flush) ==
    /\ hist_pc = "saving"
    /\ save_i <= Len(history_entries)
    /\ save_i' = save_i + 1
    /\ IF flush
       THEN /\ hfile' = hfile \o Append(fp_buf, history_entries[save_i])
            /\ fp_buf' = <<>>
       ELSE /\ fp_buf' = Append(fp_buf, history_entries[save_i])
            /\ UNCHANGED hfile
    /\ UNCHANGED <<hist_pc, history_entries, hfile_old, added>>
    /\ UNCHANGED outside_history

\* fclose(fp): what is left in the buffer is written out.
SaveClose ==
    /\ hist_pc = "saving"
    /\ save_i > Len(history_entries)
    /\ hfile' = hfile \o fp_buf
    /\ fp_buf' = <<>>
    /\ hist_pc' = "saved"
    /\ UNCHANGED <<history_entries, hfile_old, save_i, added>>
    /\ UNCHANGED outside_history

\* The shell is killed, or the machine stops: the file stays as it is.
ShellDies ==
    /\ hist_pc \in {"ready", "saving"}
    /\ hist_pc' = "dead"
    /\ fp_buf' = <<>>
    /\ UNCHANGED <<history_entries, hfile, hfile_old, save_i, added>>
    /\ UNCHANGED outside_history

NextHistory ==
    \/ \E f \in HistoryFiles : HistoryLoad(f)
    \/ \E x \in HistoryLines : HistoryAdd(x)
    \/ HistoryClear
    \/ \E ok \in BOOLEAN : SaveOpen(ok)
    \/ \E flush \in BOOLEAN : SaveWrite(flush)
    \/ SaveClose
    \/ ShellDies

(***************************************************************************)
(* Glob expansion of one command's arguments (executor.c, glob.c). An      *)
(* argument is "lit" (no wildcard) or "glob" (a pattern every visible file *)
(* of the directory matches); new_argv is followed by the number of its    *)
(* slots that have been written.                                           *)
(***************************************************************************)

\* #define MAX_EXPANDED_ARGS 1024 and #define MAX_MATCHES 1024, scaled alike.
MAX_EXPANDED_ARGS == MaxExpanded
MAX_MATCHES == MaxExpanded

GlobArgvs == UNION {[1..n -> {"lit", "glob"}] : n \in 0..MaxArgs}

\* expand_glob: the number of matches handed back (0: NULL, keep the literal).
expand_glob(pattern, files) ==
    IF pattern = "lit" THEN 0
    ELSE IF files > MAX_MATCHES THEN MAX_MATCHES ELSE files

GlobInit ==
    /\ glob_pc = "idle"
    /\ glob_argv = <<>>
    /\ glob_files = 0
    /\ glob_i = 0
    /\ new_argc = 0
    /\ slots_written = 0

\* expand_globs_in_argv is entered: argc counted, new_argv allocated.
GlobStart(argv, files) ==
    /\ glob_pc \in {"idle", "returned"}
    /\ glob_argv' = argv
    /\ glob_files' = files
    /\ glob_i' = 0
    /\ new_argc' = 0
    /\ slots_written' = 0
    /\ glob_pc' = "loop"
    /\ UNCHANGED outside_glob

\* One round of the loop over argv: the matches, or the literal, are stored
\* at new_argv[new_argc++].
GlobArg ==
    /\ glob_pc = "loop"
    /\ glob_i < Len(glob_argv)
    /\ LET match_count == expand_glob(glob_argv[glob_i + 1], glob_files)
       IN new_argc' = new_argc + (IF match_count > 0 THEN match_count ELSE 1)
    /\ slots_written' = new_argc'
    /\ glob_i' = glob_i + 1
    /\ UNCHANGED <<glob_pc, glob_argv, glob_files>>
    /\ UNCHANGED outside_glob

\* new_argv[new_argc] = NULL; return new_argv.
GlobTerminate ==
    /\ glob_pc = "loop"
    /\ glob_i = Len(glob_argv)
    /\ slots_written' = new_argc + 1
    /\ glob_pc' = "returned"
    /\ UNCHANGED <<glob_argv, glob_files, glob_i, new_argc>>
    /\ UNCHANGED outside_glob

NextGlob ==
    \/ \E argv \in GlobArgvs, files \in 0..MaxFiles : GlobStart(argv, files)
    \/ GlobArg
    \/ GlobTerminate

(***************************************************************************)
(* History navigation in the line editor (terminal.c) through the          *)
(* callbacks history_get_prev and history_get_next (history.c). A line is  *)
(* a sequence of characters; a history entry is shown as its one character. *)
(***************************************************************************)

\* history_get_prev: the navigation cursor and the string returned (null:
\* NULL is returned).
history_get_prev(h, nav) ==
    IF Len(h) = 0 THEN [nav |-> nav, null |-> TRUE, res |-> ""]
    ELSE IF nav = -1 THEN [nav |-> Len(h) - 1, null |-> FALSE, res |-> h[Len(h)]]
    ELSE IF nav > 0 THEN [nav |-> nav - 1, null |-> FALSE, res |-> h[nav]]
    ELSE [nav |-> nav, null |-> TRUE, res |-> ""]

\* history_get_next: "" once the cursor is past the newest entry.
history_get_next(h, nav) ==
    IF nav < 0 THEN [nav |-> nav, null |-> TRUE, res |-> ""]
    ELSE IF nav < Len(h) - 1 THEN [nav |-> nav + 1, null |-> FALSE, res |-> h[nav + 2]]
    ELSE [nav |-> -1, null |-> FALSE, res |-> ""]

\* strncpy(line, s, ...) of a callback's result.
LineOf(s) == IF s = "" THEN <<>> ELSE <<s>>

NavInit ==
    /\ nav_pc = "loop"
    /\ history_position = -1
    /\ nav_position = -1
    /\ nav_line = <<>>
    /\ saved_line = <<>>
    /\ keys = <<>>

\* main.c:749-758: history_reset_position() and the entry into
\* terminal_readline, which resets history_position and saved_line.
NavPrompt ==
    /\ nav_pc = "loop"
    /\ hist_pc = "ready"
    /\ nav_position' = -1
    /\ history_position' = -1
    /\ saved_line' = <<>>
    /\ nav_line' = <<>>
    /\ keys' = <<>>
    /\ nav_pc' = "read"
    /\ UNCHANGED history_vars
    /\ UNCHANGED outside_nav

\* An ordinary character is typed at the end of the line.
KeyChar(ch) ==
    /\ nav_pc = "read"
    /\ Len(keys) < MaxKeys
    /\ Len(nav_line) < MaxLine
    /\ nav_line' = Append(nav_line, ch)
    /\ keys' = Append(keys, "char")
    /\ UNCHANGED <<nav_pc, history_position, nav_position, saved_line>>
    /\ UNCHANGED history_vars
    /\ UNCHANGED outside_nav

\* Up arrow.
KeyUp ==
    /\ nav_pc = "read"
    /\ Len(keys) < MaxKeys
    /\ LET pos == IF history_position = -1 THEN 0 ELSE history_position + 1
           prev == history_get_prev(history_entries, nav_position)
       IN /\ saved_line' = IF history_position = -1 THEN nav_line ELSE saved_line
          /\ nav_position' = prev.nav
          /\ IF ~prev.null
             THEN /\ nav_line' = LineOf(prev.res)
                  /\ history_position' = pos
             ELSE /\ nav_line' = nav_line
                  /\ history_position' = IF pos - 1 < 0 THEN 0 ELSE pos - 1
    /\ keys' = Append(keys, "up")
    /\ UNCHANGED nav_pc
    /\ UNCHANGED history_vars
    /\ UNCHANGED outside_nav

\* Down arrow.
KeyDown ==
    /\ nav_pc = "read"
    /\ Len(keys) < MaxKeys
    /\ IF history_position < 0
       THEN UNCHANGED <<nav_line, history_position, nav_position>>
       ELSE IF history_position = 0
       THEN /\ nav_line' = saved_line
            /\ history_position' = -1
            /\ UNCHANGED nav_position
       ELSE LET next == history_get_next(history_entries, nav_position)
            IN /\ history_position' = history_position - 1
               /\ nav_position' = next.nav
               /\ nav_line' = IF ~next.null THEN LineOf(next.res) ELSE nav_line
    /\ keys' = Append(keys, "down")
    /\ UNCHANGED <<nav_pc, saved_line>>
    /\ UNCHANGED history_vars
    /\ UNCHANGED outside_nav

\* Enter: terminal_readline returns the line and the loop goes round.
NavEnter ==
    /\ nav_pc = "read"
    /\ nav_pc' = "loop"
    /\ UNCHANGED <<history_position, nav_position, nav_line, saved_line, keys>>
    /\ UNCHANGED history_vars
    /\ UNCHANGED outside_nav

NextNav ==
    \/ \E f \in HistoryFiles : HistoryLoad(f)
    \/ NavPrompt
    \/ \E ch \in {"w"} : KeyChar(ch)
    \/ KeyUp
    \/ KeyDown
    \/ NavEnter

(***************************************************************************)
(* The evaluator of arithmetic expansions (arithmetic.c). A parser         *)
(* function gives the value it returns, the position p->pos it leaves and  *)
(* whether a division or modulus by zero was met on the way. The values of *)
(* the model's expressions stay far inside the range of an int.            *)
(***************************************************************************)

ArithDigits == {"0", "1"}
ArithChars == ArithDigits \cup {"+", "*", "/", "%", "(", ")"}

\* The expressions given to $(( )): 1..MaxExpr characters; they carry no
\* variable reference.
ArithExprs == UNION {[1..n -> ArithChars] : n \in 1..MaxExpr}

DigitValue(c) == IF c = "1" THEN 1 ELSE 0

\* The quotient and remainder of C, which truncate towards zero.
c_div(a, b) ==
    IF (a >= 0) = (b > 0)
    THEN (IF a >= 0 THEN a ELSE -a) \div (IF b > 0 THEN b ELSE -b)
    ELSE -((IF a >= 0 THEN a ELSE -a) \div (IF b > 0 THEN b ELSE -b))
c_mod(a, b) == a - b * c_div(a, b)

\* while (isdigit(...)) value = value * 10 + digit
RECURSIVE parse_digits(_, _, _)
parse_digits(e, p, value) ==
    IF At(e, p) \in ArithDigits
    THEN parse_digits(e, p + 1, value * 10 + DigitValue(At(e, p)))
    ELSE [value |-> value, pos |-> p, dz |-> FALSE]

parse_number(e, p0) ==
    LET p == skip_whitespace(e, p0)
        negative == At(e, p) = "-"
        q == IF At(e, p) \in {"-", "+"} THEN p + 1 ELSE p
        n == parse_digits(e, q, 0)
    IN  IF At(e, q) \notin ArithDigits THEN [value |-> 0, pos |-> q, dz |-> FALSE]
        ELSE IF negative THEN [n EXCEPT !.value = -n.value]
        ELSE n

RECURSIVE parse_expr(_, _)
RECURSIVE parse_term(_, _)
RECURSIVE parse_factor(_, _)
RECURSIVE term_loop(_, _)
RECURSIVE expr_loop(_, _)

parse_factor(e, p0) ==
    LET p == skip_whitespace(e, p0)
    IN  IF At(e, p) = "("
        THEN LET v == parse_expr(e, p + 1)
                 q == skip_whitespace(e, v.pos)
             IN  [v EXCEPT !.pos = IF At(e, q) = ")" THEN q + 1 ELSE q]
        ELSE parse_number(e, p)

\* The while loop of parse_term, left being what it has so far. A zero
\* divisor makes parse_term return 0 on the spot.
term_loop(e, left) ==
    LET p == skip_whitespace(e, left.pos)
        op == At(e, p)
        right == parse_factor(e, p + 1)
    IN  IF op = "*"
        THEN term_loop(e, [value |-> left.value * right.value, pos |-> right.pos,
                           dz |-> left.dz \/ right.dz])
        ELSE IF op \in {"/", "%"}
        THEN IF right.value = 0
             THEN [value |-> 0, pos |-> right.pos, dz |-> TRUE]
             ELSE term_loop(e, [value |-> IF op = "/"
                                          THEN c_div(left.value, right.value)
                                          ELSE c_mod(left.value, right.value),
                                pos |-> right.pos,
                                dz |-> left.dz \/ right.dz])
        ELSE [left EXCEPT !.pos = p]

parse_term(e, p0) == term_loop(e, parse_factor(e, p0))

\* The while loop of parse_expr.
expr_loop(e, left) ==
    LET p == skip_whitespace(e, left.pos)
        op == At(e, p)
        right == parse_term(e, p + 1)
    IN  IF op \in {"+", "-"}
        THEN expr_loop(e, [value |-> IF op = "+" THEN left.value + right.value
                                     ELSE left.value - right.value,
                           pos |-> right.pos,
                           dz |-> left.dz \/ right.dz])
        ELSE [left EXCEPT !.pos = p]

parse_expr(e, p0) == expr_loop(e, parse_term(e, p0))

\* eval_arithmetic: what is left over after the expression gets a message
\* and is ignored.
eval_arithmetic(e) ==
    [value |-> parse_expr(e, 1).value, dz |-> parse_expr(e, 1).dz]

NoArith == [value |-> 0, dz |-> FALSE]

ArithInit ==
    /\ arith_pc = "idle"
    /\ arith_expr = <<>>
    /\ arith_result = NoArith

\* An expansion $((e)) is evaluated.
ArithEval ==
    /\ arith_pc = "idle"
    /\ arith_pc' = "done"
    /\ \E e \in ArithExprs :
          /\ arith_expr' = e
          /\ arith_result' = eval_arithmetic(e)
    /\ UNCHANGED outside_arith

\* The value has been put into the line.
ArithDone ==
    /\ arith_pc = "done"
    /\ arith_pc' = "idle"
    /\ arith_expr' = <<>>
    /\ arith_result' = NoArith
    /\ UNCHANGED outside_arith

NextArith ==
    \/ ArithEval
    \/ ArithDone

(***************************************************************************)
(* The parallel file search (myfd.c): tool_myfd_main, its worker threads   *)
(* and the work queue of directories.                                      *)
(***************************************************************************)

\* #define MAX_QUEUE_SIZE 4096, scaled down.
MAX_QUEUE_SIZE == MaxFdQueue

\* sysconf(_SC_NPROCESSORS_ONLN), the number of workers.
fd_num_threads == MaxFdThreads
FdWorkers == 1..fd_num_threads

\* pthread_cond_signal(&q->can_pop): the workers as they may be after it,
\* one of those waiting having been woken, if any waits.
SignalCanPop(th) ==
    IF \E w \in FdWorkers : th[w] = "waiting"
    THEN {[th EXCEPT ![w] = "pop"] : w \in {v \in FdWorkers : th[v] = "waiting"}}
    ELSE {th}

\* pthread_cond_signal(&q->can_push): one of the workers waiting for room in
\* the queue is woken, if any waits.
SignalCanPush(th) ==
    IF \E w \in FdWorkers : th[w] = "push_wait"
    THEN {[th EXCEPT ![w] = "active"] : w \in {v \in FdWorkers : th[v] = "push_wait"}}
    ELSE {th}

\* pthread_cond_broadcast(&q->can_pop): every waiting worker is woken.
BroadcastCanPop(th) ==
    [w \in FdWorkers |-> IF th[w] = "waiting" THEN "pop" ELSE th[w]]

\* The join loop has gone through all of threads[].
JoinedAll(i) == i >= fd_num_threads

FdInit ==
    /\ fd_pc = "create"
    /\ fd_threads = [w \in FdWorkers |-> "none"]
    /\ fd_count = 0
    /\ g_active_threads = 0
    /\ g_work_done = FALSE
    /\ fd_i = 0
    /\ fd_dirs = MaxDirs
    /\ fd_ret = 0

\* One round of the loop that creates the workers; a failed pthread_create
\* makes tool_myfd_main return 1.
FdCreate(ok) ==
    /\ fd_pc = "create"
    /\ fd_i < fd_num_threads
    /\ IF ok
       THEN /\ fd_threads' = [fd_threads EXCEPT ![fd_i + 1] = "pop"]
            /\ fd_i' = fd_i + 1
            /\ UNCHANGED <<fd_pc, fd_ret>>
       ELSE /\ fd_pc' = "returned"
            /\ fd_ret' = 1
            /\ UNCHANGED <<fd_threads, fd_i>>
    /\ UNCHANGED <<fd_count, g_active_threads, g_work_done, fd_dirs>>
    /\ UNCHANGED outside_fd

\* realpath(start_path) and the push of the first directory; an invalid
\* start path makes tool_myfd_main return 1.
FdStart(ok) ==
    /\ fd_pc = "create"
    /\ fd_i = fd_num_threads
    /\ IF ok
       THEN /\ fd_pc' = "wait"
            /\ fd_count' = fd_count + 1
            /\ fd_threads' \in SignalCanPop(fd_threads)
            /\ UNCHANGED fd_ret
       ELSE /\ fd_pc' = "returned"
            /\ fd_ret' = 1
            /\ UNCHANGED <<fd_count, fd_threads>>
    /\ UNCHANGED <<g_active_threads, g_work_done, fd_i, fd_dirs>>
    /\ UNCHANGED outside_fd

\* The polling loop finds the queue empty and no worker active.
FdPoll ==
    /\ fd_pc = "wait"
    /\ fd_count = 0 /\ g_active_threads = 0
    /\ fd_pc' = "shutdown"
    /\ UNCHANGED <<fd_threads, fd_count, g_active_threads, g_work_done, fd_i,
                   fd_dirs, fd_ret>>
    /\ UNCHANGED outside_fd

\* g_work_done = true, written with no mutex held.
FdSetDone ==
    /\ fd_pc = "shutdown"
    /\ g_work_done' = TRUE
    /\ fd_pc' = "broadcast"
    /\ UNCHANGED <<fd_threads, fd_count, g_active_threads, fd_i, fd_dirs, fd_ret>>
    /\ UNCHANGED outside_fd

FdBroadcast ==
    /\ fd_pc = "broadcast"
    /\ fd_threads' = BroadcastCanPop(fd_threads)
    /\ fd_pc' = "join"
    /\ fd_i' = 0
    /\ UNCHANGED <<fd_count, g_active_threads, g_work_done, fd_dirs, fd_ret>>
    /\ UNCHANGED outside_fd

\* pthread_join(threads[i]) returns once that worker has exited; after the
\* last one tool_myfd_main cleans up and returns.
FdJoin ==
    /\ fd_pc = "join"
    /\ IF JoinedAll(fd_i)
       THEN /\ fd_pc' = "returned"
            /\ fd_ret' = 0
            /\ UNCHANGED <<fd_threads, fd_i>>
       ELSE /\ fd_threads[fd_i + 1] = "exited"
            /\ fd_threads' = [fd_threads EXCEPT ![fd_i + 1] = "joined"]
            /\ fd_i' = fd_i + 1
            /\ UNCHANGED <<fd_pc, fd_ret>>
    /\ UNCHANGED <<fd_count, g_active_threads, g_work_done, fd_dirs>>
    /\ UNCHANGED outside_fd

\* queue_pop under the queue's mutex: a directory is taken, or with an empty
\* queue the worker ends if g_work_done is set and else is about to wait.
FdPop(w) ==
    /\ fd_threads[w] = "pop"
    /\ IF fd_count > 0
       THEN /\ fd_count' = fd_count - 1
            /\ fd_threads' \in SignalCanPush([fd_threads EXCEPT ![w] = "popped"])
       ELSE /\ fd_threads' = [fd_threads EXCEPT ![w] =
                                 IF g_work_done THEN "exited" ELSE "to_wait"]
            /\ UNCHANGED fd_count
    /\ UNCHANGED <<fd_pc, g_active_threads, g_work_done, fd_i, fd_dirs, fd_ret>>
    /\ UNCHANGED outside_fd

\* pthread_cond_wait(&q->can_pop, ...): the worker sleeps until signalled.
FdWait(w) ==
    /\ fd_threads[w] = "to_wait"
    /\ fd_threads' = [fd_threads EXCEPT ![w] = "waiting"]
    /\ UNCHANGED <<fd_pc, fd_count, g_active_threads, g_work_done, fd_i, fd_dirs,
                   fd_ret>>
    /\ UNCHANGED outside_fd

\* g_active_threads++
FdActive(w) ==
    /\ fd_threads[w] = "popped"
    /\ g_active_threads' = g_active_threads + 1
    /\ fd_threads' = [fd_threads EXCEPT ![w] = "active"]
    /\ UNCHANGED <<fd_pc, fd_count, g_work_done, fd_i, fd_dirs, fd_ret>>
    /\ UNCHANGED outside_fd

\* process_directory finds a subdirectory and calls queue_push: the path is
\* queued, or with a full queue the worker waits on can_push.
FdPush(w) ==
    /\ fd_threads[w] = "active"
    /\ fd_dirs > 0
    /\ IF fd_count = MAX_QUEUE_SIZE
       THEN /\ fd_threads' = [fd_threads EXCEPT ![w] = "push_wait"]
            /\ UNCHANGED <<fd_dirs, fd_count>>
       ELSE /\ fd_dirs' = fd_dirs - 1
            /\ fd_count' = fd_count + 1
            /\ fd_threads' \in SignalCanPop(fd_threads)
    /\ UNCHANGED <<fd_pc, g_active_threads, g_work_done, fd_i, fd_ret>>
    /\ UNCHANGED outside_fd

\* process_directory is through; g_active_threads--
FdFinish(w) ==
    /\ fd_threads[w] = "active"
    /\ g_active_threads' = g_active_threads - 1
    /\ fd_threads' = [fd_threads EXCEPT ![w] = "pop"]
    /\ UNCHANGED <<fd_pc, fd_count, g_work_done, fd_i, fd_dirs, fd_ret>>
    /\ UNCHANGED outside_fd

NextFd ==
    \/ \E ok \in BOOLEAN : FdCreate(ok)
    \/ \E ok \in BOOLEAN : FdStart(ok)
    \/ FdPoll
    \/ FdSetDone
    \/ FdBroadcast
    \/ FdJoin
    \/ \E w \in FdWorkers : FdPop(w)
    \/ \E w \in FdWorkers : FdWait(w)
    \/ \E w \in FdWorkers : FdActive(w)
    \/ \E w \in FdWorkers : FdPush(w)
    \/ \E w \in FdWorkers : FdFinish(w)

(***************************************************************************)
(* Job control: processes, the executor and the REPL loop.                 *)
(***************************************************************************)

WaitPcs == {"wait", "cmd_wait", "fg_wait"}

NoProc == [st |-> "none", pgid |-> 0, ev |-> "none", how |-> "none", code |-> 0]
Reaped == [st |-> "reaped", pgid |-> 0, ev |-> "none", how |-> "none", code |-> 0]
NewProc(g) == [st |-> "run", pgid |-> g, ev |-> "none", how |-> "none", code |-> 0]

NoRun == [kind |-> "none", stopped |-> FALSE, full |-> FALSE, jid |-> 0,
          printed |-> <<>>, waited |-> 0, lastexit |-> -1, lastsig |-> 0,
          fds |-> 0]
NoFwd == [sig |-> "none", rcv |-> {}, live |-> {}, at |-> "none", outcome |-> "none"]

\* A process the kernel still knows: running, stopped, or an unreaped zombie.
Exists(pr, p) == p \in Pids /\ pr[p].st \in {"run", "stop", "zombie"}

\* The members of process group g.
Members(pr, g) == {p \in Pids : Exists(pr, p) /\ pr[p].pgid = g}

SigNo(sig) == CASE sig = "SIGINT" -> 2
                [] sig = "SIGTSTP" -> 20
                [] sig = "SIGCONT" -> 18

\* The exit codes waitpid can report for process p: WEXITSTATUS(status) is
\* meaningful only when WIFEXITED(status).
WEXITSTATUS(p) == IF p.how = "exit" THEN ExitCodes ELSE {0}

\* Default disposition of a signal in a child: execvp resets the handlers the
\* child inherited from the shell.
Effect(p, sig) ==
    CASE sig = "SIGINT" /\ p.st = "run" ->
            [p EXCEPT !.st = "zombie", !.how = "signal", !.code = SigNo(sig), !.ev = "none"]
      [] sig = "SIGTSTP" /\ p.st = "run" ->
            [p EXCEPT !.st = "stop", !.ev = "stopped"]
      [] sig = "SIGCONT" /\ p.st = "stop" ->
            [p EXCEPT !.st = "run", !.ev = "continued"]
      [] OTHER -> p

\* kill(-g, sig): every member of group g gets the signal; ESRCH when there is none.
KillGroup(pr, g, sig) ==
    [p \in Pids |-> IF p \in Members(pr, g) THEN Effect(pr[p], sig) ELSE pr[p]]

\* kill(p, sig): one process.
KillPid(pr, p, sig) == [pr EXCEPT ![p] = Effect(pr[p], sig)]

\* A handler that leaves the flag as it finds it.
sigchld_handler_idle(changed, flag) == flag

\* sigchld_handler: a state change of a child sets the flag.
sigchld_handler(changed, flag) == IF changed THEN 1 ELSE flag

\* The live processes of the pipeline that process q belongs to.
PipelineOf(pr, q) ==
    IF q \in Pids THEN {p \in Pids : lead[p] = lead[q] /\ pr[p].st \in {"run", "stop"}}
    ELSE {}

Init ==
    /\ pc = "top"
    /\ procs = [p \in Pids |-> NoProc]
    /\ lead = [p \in Pids |-> 0]
    /\ nextpid = ShellPgid + 1
    /\ pids = <<>>
    /\ wi = 0
    /\ last_status = 0
    /\ fgjob = 0
    /\ jobs = <<>>
    /\ g_next_job_id = 1
    /\ foreground_job_pid = 0
    /\ child_exited = 0
    /\ tty_pgrp = ShellPgid
    /\ ret = 0
    /\ run = NoRun
    /\ fwd = NoFwd
    /\ calls = 0
    /\ created = <<>>
    /\ EditorInit
    /\ PoolInit
    /\ ParseInit
    /\ EnvInit
    /\ HistoryInit
    /\ ArithInit
    /\ FdInit
    /\ NavInit
    /\ GlobInit

(***************************************************************************)
(* The job table (jobs.c).                                                 *)
(***************************************************************************)

\* The id taken from the table's fill instead of the counter.
NewJobId_count(js, nid) == Len(js) + 1

\* jobs_add: job->job_id = g_next_job_id++.
NewJobId(js, nid) == nid

\* jobs_add(pid, cmd, bg): the table, the id counter and the returned id (-1: full).
jobs_add(js, nid, pid, bg) ==
    IF Len(js) >= MAX_JOBS \/ pid <= 0
    THEN [jobs |-> js, next |-> nid, id |-> -1]
    ELSE [jobs |-> Append(js, [job_id |-> NewJobId(js, nid), pid |-> pid,
                               status |-> "Running", background |-> bg]),
          next |-> nid + 1,
          id |-> NewJobId(js, nid)]

\* find_job_index: the first slot holding job_id, 0 when there is none.
find_job_index(js, id) ==
    IF \E i \in 1..Len(js) : js[i].job_id = id
    THEN CHOOSE i \in 1..Len(js) :
            js[i].job_id = id /\ \A k \in 1..(i - 1) : js[k].job_id # id
    ELSE 0

\* jobs_remove(job_id): the later jobs shift down by one slot.
jobs_remove(js, id) ==
    LET x == find_job_index(js, id)
    IN IF x = 0 THEN js
       ELSE SubSeq(js, 1, x - 1) \o SubSeq(js, x + 1, Len(js))

\* What waitpid(pid, &status, WNOHANG | WUNTRACED | WCONTINUED) reports.
Poll(pr, p) ==
    IF ~Exists(pr, p) THEN "error"
    ELSE IF pr[p].st = "zombie" THEN "exited"
    ELSE IF pr[p].ev = "stopped" THEN "stopped"
    ELSE IF pr[p].ev = "continued" THEN "continued"
    ELSE "running"

\* The kernel's side of a successful waitpid: a zombie is reaped, a stop or a
\* continue is reported once.
Consume(pr, p) ==
    IF ~Exists(pr, p) THEN pr
    ELSE IF pr[p].st = "zombie" THEN [pr EXCEPT ![p] = Reaped]
    ELSE [pr EXCEPT ![p].ev = "none"]

\* The status jobs_update_status gives a job after polling it.
Polled(status, res) ==
    CASE status = "Done" -> "Done"
      [] res \in {"error", "exited"} -> "Done"
      [] res = "stopped" -> "Stopped"
      [] res = "continued" -> "Running"
      [] OTHER -> status

RECURSIVE UpdateFrom(_, _, _)
UpdateFrom(js, pr, i) ==
    IF i > Len(js) THEN [jobs |-> js, procs |-> pr]
    ELSE IF js[i].status = "Done" THEN UpdateFrom(js, pr, i + 1)
    ELSE UpdateFrom([js EXCEPT ![i].status = Polled(js[i].status, Poll(pr, js[i].pid))],
                    Consume(pr, js[i].pid), i + 1)

\* jobs_update_status(): every job that is not Done is polled once, in table order.
jobs_update_status(js, pr) == UpdateFrom(js, pr, 1)

\* The loop starting one slot too low: the last job is never looked at.
jobs_cleanup_skiplast(js) ==
    IF Len(js) = 0 THEN js
    ELSE Append(SelectSeq(SubSeq(js, 1, Len(js) - 1), LAMBDA j : j.status # "Done"),
                js[Len(js)])

\* jobs_cleanup(): every Done job is removed.
jobs_cleanup(js) == SelectSeq(js, LAMBDA j : j.status # "Done")

(***************************************************************************)
(* The REPL loop of main().                                                *)
(***************************************************************************)

\* The loop's test taken as never true: the poll is skipped.
PollDue_never(flag) == FALSE

\* main.c:735, if (child_exited): the job table is polled at the top of an
\* iteration when the SIGCHLD handler has set the flag.
PollDue(flag) == flag # 0

LoopTest ==
    /\ pc = "top"
    /\ calls' = 0
    /\ UNCHANGED outside_shell
    /\ pc' = IF PollDue(child_exited) THEN "top_clear" ELSE "prompt"
    /\ run' = NoRun
    /\ ret' = 0
    /\ fwd' = NoFwd
    /\ UNCHANGED <<procs, lead, nextpid, pids, wi, last_status, fgjob, jobs,
                   g_next_job_id, foreground_job_pid, child_exited, tty_pgrp,
                   created>>

\* main.c:736, child_exited = 0
LoopClear ==
    /\ pc = "top_clear"
    /\ UNCHANGED calls
    /\ UNCHANGED outside_shell
    /\ child_exited' = 0
    /\ pc' = "top_update"
    /\ fwd' = NoFwd
    /\ UNCHANGED <<procs, lead, nextpid, pids, wi, last_status, fgjob, jobs,
                   g_next_job_id, foreground_job_pid, tty_pgrp, ret, run,
                   created>>

\* main.c:740-745, jobs_update_status(); jobs_cleanup();
LoopUpdate ==
    /\ pc = "top_update"
    /\ UNCHANGED calls
    /\ UNCHANGED outside_shell
    /\ LET u == jobs_update_status(jobs, procs)
       IN /\ jobs' = jobs_cleanup(u.jobs)
          /\ procs' = u.procs
    /\ pc' = "prompt"
    /\ fwd' = NoFwd
    /\ UNCHANGED <<lead, nextpid, pids, wi, last_status, fgjob,
                   g_next_job_id, foreground_job_pid, child_exited, tty_pgrp,
                   ret, run, created>>

(***************************************************************************)
(* The executor (executor.c).                                              *)
(***************************************************************************)

\* The executor is entered for the line just read (main.c:860) or, the line
\* being a conditional whose condition has returned, for the block that
\* execute_conditional runs next (conditional.c:230).
Ready == pc = "prompt" \/ (pc = "top" /\ calls = 1)

\* The new job left with the status jobs_add gave it.
MarkStopped_skip(js, id) == js

\* job = jobs_get(job_id); job->status = JOB_STOPPED;
MarkStopped(js, id) ==
    IF id > 0 /\ find_job_index(js, id) > 0
    THEN [js EXCEPT ![find_job_index(js, id)].status = "Stopped"]
    ELSE js

\* The stop branch of a foreground wait: the pipeline becomes a Stopped job
\* under pid jobpid, the foreground pointer becomes fgval, and 0 is returned.
StoppedPath(p, jobpid, fgval) ==
    LET a == jobs_add(jobs, g_next_job_id, jobpid, 0)
    IN /\ procs' = Consume(procs, p)
       /\ jobs' = MarkStopped(a.jobs, a.id)
       /\ g_next_job_id' = a.next
       /\ created' = IF a.id > 0 THEN Append(created, a.id) ELSE created
       /\ foreground_job_pid' = fgval
       /\ ret' = 0
       /\ run' = [run EXCEPT !.stopped = TRUE, !.full = (Len(jobs) >= MAX_JOBS),
                             !.jid = a.id, !.waited = @ + 1]
       /\ pc' = "top"
       /\ pids' = <<>>
       /\ wi' = 0
       /\ last_status' = 0
       /\ UNCHANGED calls
       /\ UNCHANGED outside_shell
       /\ fwd' = NoFwd
       /\ UNCHANGED <<lead, nextpid, fgjob, child_exited, tty_pgrp>>

\* execute_command, external program: fork() and exec with no setpgid, so the
\* child stays in the shell's process group; the parent records the child as
\* the foreground job and waits. A failed fork returns -1.
RunExternal(ok) ==
    /\ Ready
    /\ calls' = calls + 1
    /\ UNCHANGED outside_shell
    /\ IF ok
       THEN /\ nextpid <= ShellPgid + MaxPids
            /\ procs' = [procs EXCEPT ![nextpid] = NewProc(ShellPgid)]
            /\ lead' = [lead EXCEPT ![nextpid] = nextpid]
            /\ nextpid' = nextpid + 1
            /\ pids' = <<nextpid>>
            /\ foreground_job_pid' = nextpid
            /\ run' = [NoRun EXCEPT !.kind = "cmd"]
            /\ pc' = "cmd_wait"
            /\ ret' = 0
       ELSE /\ ret' = -1
            /\ run' = [NoRun EXCEPT !.kind = "forkfail"]
            /\ pc' = "top"
            /\ UNCHANGED <<procs, lead, nextpid, pids, foreground_job_pid>>
    /\ fwd' = NoFwd
    /\ UNCHANGED <<wi, last_status, fgjob, jobs, g_next_job_id, child_exited,
                   tty_pgrp, created>>

\* execute_command: waitpid(pid, &status, WUNTRACED) returned a termination.
CmdReaped(c) ==
    /\ pc = "cmd_wait"
    /\ UNCHANGED calls
    /\ UNCHANGED outside_shell
    /\ procs[pids[1]].st = "zombie"
    /\ c \in WEXITSTATUS(procs[pids[1]])
    /\ procs' = Consume(procs, pids[1])
    /\ foreground_job_pid' = 0
    /\ ret' = IF procs[pids[1]].how = "exit" THEN c ELSE -1
    /\ run' = [run EXCEPT !.waited = @ + 1,
                          !.lastexit = IF procs[pids[1]].how = "exit"
                                       THEN c ELSE @,
                          !.lastsig = IF procs[pids[1]].how = "signal"
                                      THEN procs[pids[1]].code ELSE @]
    /\ pc' = "top"
    /\ pids' = <<>>
    /\ fwd' = NoFwd
    /\ UNCHANGED <<lead, nextpid, wi, last_status, fgjob, jobs,
                   g_next_job_id, child_exited, tty_pgrp, created>>

\* execute_command: waitpid returned a stop status.
CmdStopped ==
    /\ pc = "cmd_wait"
    /\ procs[pids[1]].ev = "stopped"
    /\ StoppedPath(pids[1], pids[1], 0)

\* setpgid in parent and child: command 0 leads its own group, the others join it.
ChildPgid(i, pid, first) == IF i = 1 THEN pid ELSE first

\* int pipes[count - 1][2]; pipe(pipes[i]): np pipes hold 2 descriptors each.
PipeFds(np) == 2 * np

\* The parent's closing loop: close(pipes[i][0]); close(pipes[i][1]) for
\* every i < count - 1.
ClosePipes(fds, count) == fds - PipeFds(count - 1)

\* execute_pipeline: pipe() fails after np of the count - 1 pipes were
\* created, and -1 is returned at once.
PipeFail(n, np) ==
    /\ Ready
    /\ calls' = calls + 1
    /\ UNCHANGED outside_shell
    /\ np < n - 1
    /\ run' = [NoRun EXCEPT !.kind = "pipefail", !.fds = PipeFds(np)]
    /\ ret' = -1
    /\ pc' = "top"
    /\ fwd' = NoFwd
    /\ UNCHANGED <<procs, lead, nextpid, pids, wi, last_status, fgjob, jobs,
                   g_next_job_id, foreground_job_pid, child_exited, tty_pgrp,
                   created>>

\* execute_pipeline, general path, up to the end of the fork loop: k of the n
\* forks succeed (k < n: fork fails for command k and -1 is returned at once).
LaunchPipeline(n, bg, k) ==
    /\ Ready
    /\ calls' = calls + 1
    /\ UNCHANGED outside_shell
    /\ k <= n
    /\ nextpid + k <= ShellPgid + MaxPids + 1
    /\ procs' = [p \in Pids |->
                    IF p >= nextpid /\ p < nextpid + k
                    THEN NewProc(ChildPgid(p - nextpid + 1, p, nextpid))
                    ELSE procs[p]]
    /\ lead' = [p \in Pids |-> IF p >= nextpid /\ p < nextpid + k THEN nextpid ELSE lead[p]]
    /\ nextpid' = nextpid + k
    /\ IF k = n
       THEN /\ pids' = [i \in 1..n |-> nextpid + i - 1]
            /\ run' = [NoRun EXCEPT !.kind = IF bg THEN "bg" ELSE "fg",
                                    !.fds = PipeFds(n - 1)]
            /\ pc' = "forked"
            /\ ret' = 0
       ELSE /\ pids' = <<>>
            /\ run' = [NoRun EXCEPT !.kind = "forkfail", !.fds = PipeFds(n - 1)]
            /\ ret' = -1
            /\ pc' = "top"
    /\ fwd' = NoFwd
    /\ UNCHANGED <<wi, last_status, fgjob, jobs, g_next_job_id,
                   foreground_job_pid, child_exited, tty_pgrp, created>>

\* pid_t job_pid = pids[count - 1]; also jobs_add(pids[count - 1], cmd_line, 0)
JobPid(ps) == ps[Len(ps)]

\* foreground_job_pid = pids[count - 1];
ForegroundPid(ps) == ps[Len(ps)]

\* execute_pipeline after the fork loop: the parent closes the pipes; a
\* background pipeline is registered, printed and left; for a foreground
\* pipeline the foreground pointer is set and the wait loop starts.
PostFork ==
    /\ pc = "forked"
    /\ UNCHANGED calls
    /\ UNCHANGED outside_shell
    /\ IF run.kind = "bg"
       THEN LET a == jobs_add(jobs, g_next_job_id, JobPid(pids), 1)
            IN /\ jobs' = a.jobs
               /\ g_next_job_id' = a.next
               /\ created' = IF a.id > 0 THEN Append(created, a.id) ELSE created
               /\ run' = [run EXCEPT !.fds = ClosePipes(@, Len(pids)),
                                     !.full = (Len(jobs) >= MAX_JOBS), !.jid = a.id,
                                     !.printed = IF a.id > 0 THEN <<a.id, JobPid(pids)>>
                                                 ELSE <<>>]
               /\ ret' = 0
               /\ pc' = "top"
               /\ pids' = <<>>
               /\ UNCHANGED <<foreground_job_pid, wi>>
       ELSE /\ foreground_job_pid' = ForegroundPid(pids)
            /\ wi' = 1
            /\ pc' = "wait"
            /\ run' = [run EXCEPT !.fds = ClosePipes(@, Len(pids))]
            /\ UNCHANGED <<jobs, g_next_job_id, created, ret, pids>>
    /\ last_status' = 0
    /\ fwd' = NoFwd
    /\ UNCHANGED <<procs, lead, nextpid, fgjob, child_exited, tty_pgrp>>

\* The status taken from the first command instead of the last.
IsLastCommand_first(i, count) == i = 1

\* if (i == count - 1 && WIFEXITED(status))
IsLastCommand(i, count) == i = count

\* execute_pipeline: waitpid(pids[i], &status, WUNTRACED) returned a termination.
WaitReaped(c) ==
    /\ pc = "wait"
    /\ UNCHANGED calls
    /\ UNCHANGED outside_shell
    /\ procs[pids[wi]].st = "zombie"
    /\ c \in WEXITSTATUS(procs[pids[wi]])
    /\ LET p == pids[wi]
           ls == IF IsLastCommand(wi, Len(pids)) /\ procs[p].how = "exit"
                 THEN c ELSE last_status
       IN /\ procs' = Consume(procs, p)
          /\ run' = [run EXCEPT !.waited = @ + 1,
                                !.lastexit = IF wi = Len(pids) /\ procs[p].how = "exit"
                                             THEN c ELSE @,
                                !.lastsig = IF wi = Len(pids) /\ procs[p].how = "signal"
                                            THEN procs[p].code ELSE @]
          /\ IF wi = Len(pids)
             THEN /\ foreground_job_pid' = 0
                  /\ ret' = ls
                  /\ pc' = "top"
                  /\ pids' = <<>>
                  /\ wi' = 0
                  /\ last_status' = 0
             ELSE /\ wi' = wi + 1
                  /\ last_status' = ls
                  /\ UNCHANGED <<foreground_job_pid, ret, pc, pids>>
    /\ fwd' = NoFwd
    /\ UNCHANGED <<lead, nextpid, fgjob, jobs, g_next_job_id, child_exited,
                   tty_pgrp, created>>

\* The stop branch returning without clearing the foreground pointer.
WaitStopped_keepfg ==
    /\ pc = "wait"
    /\ procs[pids[wi]].ev = "stopped"
    /\ StoppedPath(pids[wi], JobPid(pids), foreground_job_pid)

\* execute_pipeline: waitpid returned a stop status.
WaitStopped ==
    /\ pc = "wait"
    /\ procs[pids[wi]].ev = "stopped"
    /\ StoppedPath(pids[wi], JobPid(pids), 0)

(***************************************************************************)
(* The jobs, fg and bg built-ins (builtins.c), run inline by               *)
(* execute_command.                                                        *)
(***************************************************************************)

\* builtin_jobs: jobs_update_status() and the listing; nothing is removed.
BuiltinJobs ==
    /\ Ready
    /\ calls' = calls + 1
    /\ UNCHANGED outside_shell
    /\ LET u == jobs_update_status(jobs, procs)
       IN /\ jobs' = u.jobs
          /\ procs' = u.procs
    /\ ret' = 0
    /\ run' = [NoRun EXCEPT !.kind = "builtin"]
    /\ pc' = "top"
    /\ fwd' = NoFwd
    /\ UNCHANGED <<lead, nextpid, pids, wi, last_status, fgjob,
                   g_next_job_id, foreground_job_pid, child_exited, tty_pgrp,
                   created>>

\* The job fg works on: the last of the table without an argument, else the
\* job with the given id; 0 when there is none.
FgSelect(js, arg) ==
    IF arg = 0
    THEN IF Len(js) = 0 THEN 0 ELSE js[Len(js)].job_id
    ELSE IF find_job_index(js, arg) > 0 THEN arg ELSE 0

\* The job bg works on: the most recent Stopped job without an argument.
BgSelect(js, arg) ==
    IF arg = 0
    THEN IF \E i \in 1..Len(js) : js[i].status = "Stopped"
         THEN js[CHOOSE i \in 1..Len(js) :
                    /\ js[i].status = "Stopped"
                    /\ \A k \in (i + 1)..Len(js) : js[k].status # "Stopped"].job_id
         ELSE 0
    ELSE IF find_job_index(js, arg) > 0 THEN arg ELSE 0

\* tcsetpgrp(STDIN_FILENO, g): fails, leaving the terminal as it is, when g is
\* not a process group of the session.
tcsetpgrp(pr, tty, g) == IF g = ShellPgid \/ Members(pr, g) # {} THEN g ELSE tty

\* builtin_fg up to its wait loop.
BuiltinFg(arg) ==
    /\ Ready
    /\ calls' = calls + 1
    /\ UNCHANGED outside_shell
    /\ LET sel == FgSelect(jobs, arg)
           u == jobs_update_status(jobs, procs)
           x == find_job_index(u.jobs, sel)
           job == u.jobs[x]
           stopped == job.status = "Stopped"
           pr2 == IF stopped THEN KillPid(u.procs, job.pid, "SIGCONT") ELSE u.procs
       IN IF sel = 0
          THEN /\ ret' = 1
               /\ pc' = "top"
               /\ UNCHANGED <<procs, jobs, tty_pgrp, foreground_job_pid, fgjob,
                              child_exited>>
          ELSE IF stopped /\ ~Exists(u.procs, job.pid)
          THEN /\ procs' = u.procs
               /\ jobs' = u.jobs
               /\ ret' = 1
               /\ pc' = "top"
               /\ UNCHANGED <<tty_pgrp, foreground_job_pid, fgjob, child_exited>>
          ELSE /\ procs' = pr2
               /\ child_exited' = sigchld_handler(pr2 # u.procs, child_exited)
               /\ jobs' = [u.jobs EXCEPT ![x].status = "Running", ![x].background = 0]
               /\ tty_pgrp' = tcsetpgrp(pr2, tty_pgrp, job.pid)
               /\ foreground_job_pid' = job.pid
               /\ fgjob' = sel
               /\ pc' = "fg_wait"
               /\ ret' = 0
    /\ run' = [NoRun EXCEPT !.kind = "builtin"]
    /\ fwd' = NoFwd
    /\ UNCHANGED <<lead, nextpid, pids, wi, last_status, g_next_job_id,
                   created>>

\* builtin_fg: waitpid(job->pid, &status, WUNTRACED) returned (a termination,
\* a stop, or ECHILD); the shell takes the terminal back and clears the
\* foreground pointer.
FgReturn ==
    /\ pc = "fg_wait"
    /\ UNCHANGED calls
    /\ UNCHANGED outside_shell
    /\ LET x == find_job_index(jobs, fgjob)
           p == jobs[x].pid
       IN /\ ~Exists(procs, p) \/ procs[p].st = "zombie" \/ procs[p].ev = "stopped"
          /\ jobs' = IF ~Exists(procs, p) THEN jobs
                     ELSE IF procs[p].st = "zombie" THEN jobs_remove(jobs, fgjob)
                     ELSE [jobs EXCEPT ![x].status = "Stopped", ![x].background = 1]
          /\ procs' = Consume(procs, p)
    /\ tty_pgrp' = tcsetpgrp(procs, tty_pgrp, ShellPgid)
    /\ foreground_job_pid' = 0
    /\ fgjob' = 0
    /\ ret' = 0
    /\ pc' = "top"
    /\ fwd' = NoFwd
    /\ UNCHANGED <<lead, nextpid, pids, wi, last_status, g_next_job_id,
                   child_exited, run, created>>

\* builtin_bg.
BuiltinBg(arg) ==
    /\ Ready
    /\ calls' = calls + 1
    /\ UNCHANGED outside_shell
    /\ LET sel == BgSelect(jobs, arg)
           u == jobs_update_status(jobs, procs)
           x == find_job_index(u.jobs, sel)
           job == u.jobs[x]
           pr2 == KillPid(u.procs, job.pid, "SIGCONT")
       IN IF sel = 0
          THEN /\ ret' = 1
               /\ UNCHANGED <<procs, jobs, child_exited>>
          ELSE IF job.status = "Running"
          THEN /\ procs' = u.procs
               /\ jobs' = u.jobs
               /\ ret' = 0
               /\ UNCHANGED child_exited
          ELSE IF ~Exists(u.procs, job.pid)
          THEN /\ procs' = u.procs
               /\ jobs' = u.jobs
               /\ ret' = 1
               /\ UNCHANGED child_exited
          ELSE /\ procs' = pr2
               /\ child_exited' = sigchld_handler(pr2 # u.procs, child_exited)
               /\ jobs' = [u.jobs EXCEPT ![x].status = "Running", ![x].background = 1]
               /\ ret' = 0
    /\ run' = [NoRun EXCEPT !.kind = "builtin"]
    /\ pc' = "top"
    /\ fwd' = NoFwd
    /\ UNCHANGED <<lead, nextpid, pids, wi, last_status, fgjob,
                   g_next_job_id, foreground_job_pid, tty_pgrp, created>>

(***************************************************************************)
(* The children, the terminal and the signal handlers (signals.c).         *)
(***************************************************************************)

\* A running child exits; the shell gets SIGCHLD. The exit code is visible
\* to the shell only in the status a later waitpid returns (WEXITSTATUS).
ChildExit(p) ==
    /\ procs[p].st = "run"
    /\ UNCHANGED calls
    /\ UNCHANGED outside_shell
    /\ procs' = [procs EXCEPT ![p] = [@ EXCEPT !.st = "zombie", !.how = "exit",
                                               !.ev = "none"]]
    /\ child_exited' = sigchld_handler(TRUE, child_exited)
    /\ fwd' = NoFwd
    /\ UNCHANGED <<pc, lead, nextpid, pids, wi, last_status, fgjob, jobs,
                   g_next_job_id, foreground_job_pid, tty_pgrp, ret, run,
                   created>>

\* A child gets a signal from outside the shell (kill from another terminal,
\* or raised by the child itself).
ChildSignal(p, sig) ==
    /\ Exists(procs, p)
    /\ UNCHANGED calls
    /\ UNCHANGED outside_shell
    /\ Effect(procs[p], sig) # procs[p]
    /\ procs' = KillPid(procs, p, sig)
    /\ child_exited' = sigchld_handler(TRUE, child_exited)
    /\ fwd' = NoFwd
    /\ UNCHANGED <<pc, lead, nextpid, pids, wi, last_status, fgjob, jobs,
                   g_next_job_id, foreground_job_pid, tty_pgrp, ret, run,
                   created>>

\* A handler that also collects the children that have exited.
sig_handler_reaping(pr, sig) ==
    [p \in Pids |-> IF pr[p].st = "zombie" THEN Reaped ELSE pr[p]]

\* sigint_handler and sigtstp_handler: if (foreground_job_pid > 0)
\* kill(-foreground_job_pid, sig).
sig_handler(pr, sig) ==
    IF foreground_job_pid > 0 THEN KillGroup(pr, foreground_job_pid, sig) ELSE pr

\* The processes a forward by the handler reaches.
Forwarded(pr) ==
    IF foreground_job_pid > 0 THEN Members(pr, foreground_job_pid) ELSE {}

\* The handlers having forgotten to ask for restarts.
SA_RESTART_off == FALSE

\* sa.sa_flags = SA_RESTART, for SIGINT, SIGTSTP and SIGCHLD alike.
SA_RESTART == TRUE

\* The calls the shell blocks in: read() of the line editor and the waitpid
\* of execute_command, execute_pipeline and builtin_fg.
BlockPcs == WaitPcs \cup {"prompt"}

\* What becomes of the blocking call at point at once the handler returns:
\* the kernel restarts it under SA_RESTART; otherwise it fails with EINTR,
\* which builtin_fg retries, terminal_readline turns into NULL (end of
\* input for main), execute_command into a return of -1, and after which
\* execute_pipeline reads a status that was never written.
Interrupted(at) ==
    CASE at \notin BlockPcs -> "none"
      [] SA_RESTART \/ at = "fg_wait" -> "restarted"
      [] at = "prompt" -> "eof"
      [] at = "cmd_wait" -> "failed"
      [] OTHER -> "undefined"

\* The shell after its handler ran while it was blocked at pc.
Resume ==
    CASE Interrupted(pc) = "eof" ->
            /\ pc' = "eof"
            /\ UNCHANGED <<pids, foreground_job_pid, ret, run>>
      [] Interrupted(pc) = "failed" ->
            /\ foreground_job_pid' = 0
            /\ ret' = -1
            /\ pids' = <<>>
            /\ pc' = "top"
            /\ UNCHANGED run
      [] Interrupted(pc) = "undefined" ->
            /\ pc' = "undefined"
            /\ UNCHANGED <<pids, foreground_job_pid, ret, run>>
      [] OTHER -> UNCHANGED <<pc, pids, foreground_job_pid, ret, run>>

\* The shell receives SIGINT or SIGTSTP sent to it alone.
ShellSignal(sig) ==
    /\ pc \notin {"eof", "undefined"}
    /\ UNCHANGED calls
    /\ UNCHANGED outside_shell
    /\ procs' = sig_handler(procs, sig)
    /\ child_exited' = sigchld_handler(procs' # procs, child_exited)
    /\ fwd' = IF pc \in BlockPcs
              THEN [sig |-> sig,
                    rcv |-> IF pc \in WaitPcs THEN Forwarded(procs) ELSE {},
                    live |-> IF pc \in WaitPcs
                             THEN PipelineOf(procs, foreground_job_pid) ELSE {},
                    at |-> pc, outcome |-> Interrupted(pc)]
              ELSE NoFwd
    /\ Resume
    /\ UNCHANGED <<lead, nextpid, wi, last_status, fgjob, jobs,
                   g_next_job_id, tty_pgrp, created>>

\* Ctrl-C or Ctrl-Z typed while a command runs (the line editor's raw mode
\* turns ISIG off at the prompt): the terminal signals its foreground process
\* group, and the shell, when it is in that group, runs its handler.
TtyKey(sig) ==
    /\ pc \notin {"prompt", "eof", "undefined"}
    /\ UNCHANGED calls
    /\ UNCHANGED outside_shell
    /\ LET direct == Members(procs, tty_pgrp)
           pr1 == KillGroup(procs, tty_pgrp, sig)
           pr2 == IF tty_pgrp = ShellPgid THEN sig_handler(pr1, sig) ELSE pr1
       IN /\ procs' = pr2
          /\ child_exited' = sigchld_handler(pr2 # procs, child_exited)
          /\ fwd' = IF pc \in WaitPcs /\ tty_pgrp = ShellPgid
                    THEN [sig |-> sig, rcv |-> direct \cup Forwarded(procs),
                          live |-> PipelineOf(procs, foreground_job_pid),
                          at |-> pc, outcome |-> Interrupted(pc)]
                    ELSE NoFwd
          /\ IF tty_pgrp = ShellPgid
             THEN Resume
             ELSE UNCHANGED <<pc, pids, foreground_job_pid, ret, run>>
    /\ UNCHANGED <<lead, nextpid, wi, last_status, fgjob, jobs,
                   g_next_job_id, tty_pgrp, created>>

Next ==
    \/ LoopTest
    \/ LoopClear
    \/ LoopUpdate
    \/ \E ok \in BOOLEAN : RunExternal(ok)
    \/ \E c \in ExitCodes : CmdReaped(c)
    \/ CmdStopped
    \/ \E n \in 1..MaxCount, np \in 0..MaxCount : PipeFail(n, np)
    \/ \E n \in 1..MaxCount, bg \in BOOLEAN, k \in 0..MaxCount : LaunchPipeline(n, bg, k)
    \/ PostFork
    \/ \E c \in ExitCodes : WaitReaped(c)
    \/ WaitStopped
    \/ BuiltinJobs
    \/ \E arg \in 0..MaxPids : BuiltinFg(arg)
    \/ FgReturn
    \/ \E arg \in 0..MaxPids : BuiltinBg(arg)
    \/ \E p \in Pids : ChildExit(p)
    \/ \E p \in Pids, sig \in Signals : ChildSignal(p, sig)
    \/ \E sig \in Signals : ShellSignal(sig)
    \/ \E sig \in Signals : TtyKey(sig)

Spec == Init /\ [][Next]_vars

\* The shell with a user who keeps entering lines (the jobs built-in when
\* nothing else), children that exit in the end when they run, and waitpid
\* calls that return once there is a status to report.
SpecShellFair ==
    /\ Spec
    /\ WF_vars(LoopTest) /\ WF_vars(LoopClear) /\ WF_vars(LoopUpdate)
    /\ WF_vars(BuiltinJobs)
    /\ WF_vars(PostFork) /\ WF_vars(FgReturn)
    /\ WF_vars(CmdStopped) /\ WF_vars(WaitStopped)
    /\ WF_vars(\E c \in ExitCodes : CmdReaped(c))
    /\ WF_vars(\E c \in ExitCodes : WaitReaped(c))
    /\ \A p \in Pids : WF_vars(ChildExit(p))

\* The line editor taken alone.
SpecEditor == Init /\ [][NextEditor]_vars

\* The thread pool taken alone, and with a scheduler that lets every thread
\* that can take a step inside the pool's code take one in the end.
SpecPool == Init /\ [][NextPool]_vars
SpecPoolFair ==
    /\ SpecPool
    /\ \A w \in Workers : WF_vars(WorkerStep(w))
    /\ \A c \in Clients : WF_vars(ClientStep(c))

\* The loop reading, parsing and dispatching lines.
SpecParse == Init /\ [][NextParse]_vars

\* The loop reading, parsing and executing conditional lines.
SpecConditional == Init /\ [][NextConditional]_vars

\* Threads calling the environment store.
SpecEnv == Init /\ [][NextEnv]_vars

\* The history from the shell's start to its exit.
SpecHistory == Init /\ [][NextHistory]_vars

\* Arithmetic expansions, one after another.
SpecArith == Init /\ [][NextArith]_vars

\* One run of the file search.
SpecFd == Init /\ [][NextFd]_vars

\* Prompts at which the user moves through the history.
SpecNav == Init /\ [][NextNav]_vars

\* Commands whose arguments are glob-expanded, one after another.
SpecGlob == Init /\ [][NextGlob]_vars

(***************************************************************************)
(* The claims.                                                             *)
(***************************************************************************)

C2_ForwardReachesPipeline == fwd.live \subseteq fwd.rcv

\* The process group of the process the shell is waiting for.
WaitedGroup ==
    CASE pc = "wait" -> procs[pids[wi]].pgid
      [] pc = "cmd_wait" -> procs[pids[1]].pgid
      [] pc = "fg_wait" /\ Exists(procs, foreground_job_pid) ->
            procs[foreground_job_pid].pgid
      [] OTHER -> tty_pgrp

\* C3: the terminal belongs to the process group of the foreground pipeline
\* while the shell waits on it, and to the shell's own group at the prompt.
C3_TerminalOwner ==
    /\ pc \in WaitPcs => tty_pgrp = WaitedGroup
    /\ pc = "prompt" => tty_pgrp = ShellPgid

\* C4: every process the executor forked is in the process group led by
\* command 0 of its pipeline.
C4_OwnProcessGroup ==
    \A p \in Pids : Exists(procs, p) => procs[p].pgid = lead[p]

\* C5: the pid recorded for every job of the table is the pid of the first
\* process of its pipeline, the leader of the job's process group.
C5_JobPidIsLeader ==
    \A i \in 1..Len(jobs) :
        /\ jobs[i].pid = lead[jobs[i].pid]
        /\ Exists(procs, jobs[i].pid) => procs[jobs[i].pid].pgid = jobs[i].pid

\* C6: no job whose status was observed as Done is still in the table when
\* the prompt is printed.
C6_DoneRemovedBeforePrompt ==
    pc = "prompt" => \A i \in 1..Len(jobs) : jobs[i].status # "Done"

\* A job observed as Done by the jobs built-in, the next prompt not yet printed.
C6_Witness ==
    /\ pc = "top"
    /\ run.kind = "builtin"
    /\ \E i \in 1..Len(jobs) : jobs[i].status = "Done"

\* C7 as stated: when a foreground wait returned a stop status, the executor
\* returned 0 and the pipeline is in the job table with status Stopped.
C7_StopRegistered ==
    (pc = "top" /\ run.stopped) =>
        /\ ret = 0
        /\ \E i \in 1..Len(jobs) : jobs[i].job_id = run.jid /\ jobs[i].status = "Stopped"

\* C7 amended: when a foreground wait returned a stop status, the executor
\* returned 0 after that one wait; the pipeline is in the job table with
\* status Stopped when the table held fewer than MAX_JOBS jobs, and the table
\* is left as it was when it was full.
C7_StopRegisteredUnlessFull ==
    (pc = "top" /\ run.stopped) =>
        /\ ret = 0
        /\ ~run.full =>
              \E i \in 1..Len(jobs) :
                  jobs[i].job_id = run.jid /\ jobs[i].status = "Stopped"
        /\ run.full =>
              /\ Len(jobs) = MAX_JOBS
              /\ \A i \in 1..Len(jobs) : jobs[i].job_id # run.jid

\* The executor has just returned from a stop it registered.
C7_Witness == pc = "top" /\ run.stopped /\ ~run.full /\ run.jid > 0

\* C8: a background pipeline is registered as a job, its job id and its
\* process group id are printed, and 0 is returned with no child waited for.
C8_BackgroundRegistered ==
    (pc = "top" /\ run.kind = "bg") =>
        /\ ret = 0
        /\ run.waited = 0
        /\ \E i \in 1..Len(jobs) :
              /\ jobs[i].job_id = run.jid
              /\ run.printed = <<run.jid, lead[jobs[i].pid]>>

\* C9: the job ids jobs_add assigns start at 1 and increase strictly, so none
\* is assigned twice, and the jobs of the table carry distinct assigned ids.
C9_JobIdsIncreasing ==
    /\ Len(created) > 0 => created[1] = 1
    /\ \A i, j \in 1..Len(created) : i < j => created[i] < created[j]
    /\ \A i, j \in 1..Len(jobs) : i # j => jobs[i].job_id # jobs[j].job_id
    /\ \A i \in 1..Len(jobs) : \E j \in 1..Len(created) : created[j] = jobs[i].job_id

\* A second job was created after the first one had left the table.
C9_Witness == Len(created) >= 2 /\ Len(jobs) = 1 /\ jobs[1].job_id = 2

\* C10: a foreground pipeline that was not stopped and whose last command
\* exited returns that command's exit status.
C10_LastCommandStatus ==
    (pc = "top" /\ run.kind \in {"fg", "cmd"} /\ ~run.stopped /\ run.lastexit # -1) =>
        ret = run.lastexit

\* A two-command foreground pipeline has returned, its last command having
\* exited with a nonzero status.
C10_Witness ==
    pc = "top" /\ run.kind = "fg" /\ ~run.stopped /\ run.waited = 2 /\ run.lastexit = 3

\* C11: when the last command of a foreground pipeline in which no stop
\* occurred was killed by a signal, the status the executor returns to the
\* shell is 128 + the signal number.
C11_SignalStatus ==
    (pc = "top" /\ run.kind \in {"fg", "cmd"} /\ ~run.stopped /\ run.lastsig # 0)
        => ret = 128 + run.lastsig

\* C12: once the executor has returned, the shell holds no open descriptor of
\* the pipes it created for that pipeline.
C12_PipesClosed ==
    (pc = "top" /\ run.kind \in {"fg", "bg", "forkfail", "pipefail"}) => run.fds = 0

C15_SubmitProgress ==
    /\ \A c \in Clients :
          (cpc[c] = "submit_waiting" /\ queue_size < queue_capacity)
              ~> (cpc[c] \notin {"submit_waiting", "submit"})
    /\ \A t \in Tasks : (t \in Queued) ~> (executed[t] > 0)

\* C16: at the moment thread_pool_wait returns, the queue is empty and no
\* worker is executing a task.
C16_WaitMeansIdle ==
    [][\A c \in Clients :
          (cpc[c] # "returned" /\ cpc'[c] = "returned")
              => (queue_size' = 0 /\ \A w \in Workers : wpc'[w] # "exec")]_vars

\* C17: the workers have all exited, and thread_pool_destroy has freed the
\* pool, only after every task that was in the queue when thread_pool_destroy
\* was called has been run.
C17_DestroyCompletesPending ==
    /\ (\E c \in Clients : cpc[c] = "destroyed") => \A w \in Workers : wpc[w] = "exited"
    /\ (\A w \in Workers : wpc[w] = "exited") => \A t \in pending : executed[t] > 0

\* The pool was destroyed with a task still in its queue.
C17_Witness == (\E c \in Clients : cpc[c] = "destroyed") /\ pending # {}

\* The words of a line, as the blanks separate them.
WordsOf(s) == tokenize_command(s)

\* A | that no command follows: the line ends after it, or another | comes.
UnterminatedPipe(ws) ==
    \E i \in 1..Len(ws) :
        /\ ws[i] = <<"|">>
        /\ (i = Len(ws) \/ ws[i + 1] = <<"|">>)

\* C18: a line with a | that no command follows is rejected as a parse
\* error, and none of its commands is executed.
C18_UnterminatedPipeRejected ==
    (main_pc = "prompt" /\ is_conditional = 0 /\ UnterminatedPipe(WordsOf(line)))
        => (line_result = "parse_error" /\ ran = <<>>)

\* A conditional line whose then-block or else-block opens with an if.
NestedIf(ws) ==
    /\ Len(ws) > 0
    /\ ws[1] = kw_if
    /\ \E t \in 2..Len(ws), i \in 2..(Len(ws) - 1) :
          /\ t <= i
          /\ ws[t] = kw_then
          /\ ws[i] \in {kw_then, kw_else}
          /\ ws[i + 1] = kw_if

\* C19: a conditional with a nested if in its then-block or else-block is
\* rejected as a parse error.
C19_NestedIfRejected ==
    (main_pc \in {"conditional", "prompt"} /\ NestedIf(WordsOf(line)))
        => is_conditional = -1

\* A line that begins with the word if and lacks the word then or the word fi.
MissingKeyword(ws) ==
    /\ Len(ws) > 0
    /\ ws[1] = kw_if
    /\ \/ \A i \in 1..Len(ws) : ws[i] # kw_then
       \/ \A i \in 1..Len(ws) : ws[i] # kw_fi

\* C20: a line that begins with if and has no then keyword or no fi keyword
\* is rejected as a parse error.
C20_MissingKeywordRejected ==
    (main_pc \in {"conditional", "prompt"} /\ MissingKeyword(WordsOf(line)))
        => (is_conditional = -1 /\ line_result = "parse_error")

\* The line carries an & somewhere.
HasAmp(s) == \E i \in 1..Len(s) : s[i] = "&"

\* C21: a conditional line on which & appears is rejected, not executed.
C21_AmpOnConditionalRejected ==
    (/\ main_pc \in {"conditional", "prompt"}
     /\ Len(WordsOf(line)) > 0
     /\ WordsOf(line)[1] = kw_if
     /\ HasAmp(line))
        => (is_conditional = -1 /\ ran = <<>>)

\* What execute_pipeline starts for a block.
StartedBy(block) == Started(parse_pipeline(block, TRUE).commands)

\* C22: a conditional that was executed ran its condition and then the
\* then-block exactly when the condition's status was 0; otherwise the
\* else-block if there is one, and with none it ran no block and returned
\* the condition's status.
C22_BlockSelection ==
    (main_pc = "prompt" /\ is_conditional = 1 /\ line_result = "executed")
        => /\ cond_status = 0 => ran = StartedBy(condition) \o StartedBy(then_block)
           /\ (cond_status # 0 /\ else_block # <<>>)
                  => ran = StartedBy(condition) \o StartedBy(else_block)
           /\ (cond_status # 0 /\ else_block = <<>>)
                  => (ran = StartedBy(condition) /\ last_exit_status = cond_status)

\* A condition that failed, with the else-block run for it.
C22_Witness ==
    /\ main_pc = "prompt"
    /\ is_conditional = 1
    /\ line_result = "executed"
    /\ cond_status = 1
    /\ ran = <<<<"c">>, <<"e">>>>

\* C23: every iteration of the loop polls the job table at its top: the
\* prompt is reached only from the call of jobs_update_status.
C23_UpdateEachIteration ==
    [][(pc' = "prompt" /\ pc # "prompt") => pc = "top_update"]_vars

\* C23, as the loop does it: an iteration polls the job table at its top
\* when the child_exited flag is set, and goes to the prompt without a poll
\* only when the flag is clear.
C23_UpdateWhenFlagged ==
    [][/\ (pc' = "prompt" /\ pc # "prompt")
          => (pc = "top_update" \/ (pc = "top" /\ child_exited = 0))
       /\ (pc = "top" /\ pc' \in {"top_clear", "prompt"} /\ child_exited # 0)
          => pc' = "top_clear"
       /\ (pc = "top_clear" /\ pc' # pc) => pc' = "top_update"]_vars

\* The flag was set with a job in the table, and the poll is about to run.
C23_Witness == pc = "top_update" /\ Len(jobs) > 0

\* A step in which one of the shell's signal handlers runs.
HandlerRuns ==
    \/ \E p \in Pids : ChildExit(p)
    \/ \E p \in Pids, sig \in Signals : ChildSignal(p, sig)
    \/ \E sig \in Signals : ShellSignal(sig)
    \/ \E sig \in Signals : TtyKey(sig)

C25_SetThenGet ==
    \A t \in EnvThreads :
        (epc[t] = "use" /\ eres[t].after \in {"set", "dropped"})
            => eres[t].value = eres[t].expect

\* C25, within the store's capacity: the get returns the value set when
\* the name was bound already or the store had room for it.
C25_SetThenGetUnlessFull ==
    \A t \in EnvThreads :
        (epc[t] = "use" /\ eres[t].after = "set")
            => eres[t].value = eres[t].expect

\* A get of x that followed a set of x to the value 2.
C25_Witness ==
    \E t \in EnvThreads :
        /\ epc[t] = "use"
        /\ eres[t].after = "set"
        /\ eres[t].value = "2"
        /\ eres[t].name = "x"

\* C26: while a thread reads the value env_get gave it, no other thread is
\* inside env_set or env_unset replacing or removing that binding.
C26_ReadsSerialized ==
    \A t \in EnvThreads, u \in EnvThreads :
        (/\ t # u
         /\ epc[t] = "use"
         /\ env_find(bindings, eres[t].name) # 0)
            => ~(epc[u] \in {"set", "unset"} /\ eargs[u].name = eres[t].name)

\* How often a line occurs in the history.
Occurrences(h, x) == Cardinality({i \in 1..Len(h) : h[i] = x})

C28_AtomicSave ==
    hfile = hfile_old \/ hfile = history_entries

\* C29: an expression in whose evaluation a division or modulus by zero
\* occurred has the value 0.
C29_DivisionByZeroYieldsZero ==
    (arith_pc = "done" /\ arith_result.dz) => arith_result.value = 0

\* C30: when the file search returns, every worker thread it created has
\* been joined.
C30_WorkersJoined ==
    fd_pc = "returned" => \A w \in FdWorkers : fd_threads[w] \in {"none", "joined"}

\* C31: every child forked for a pipeline is waited for by the shell some time
\* after it has terminated.
C31_EventuallyReaped ==
    \A p \in Pids : (procs[p].st = "zombie") ~> (procs[p].st = "reaped")

\* C32: a job whose status is Done keeps that status for as long as it is in
\* the table, whatever operation runs.
C32_DoneAbsorbing ==
    [][\A i \in 1..Len(jobs), j \in 1..Len(jobs') :
          (jobs[i].status = "Done" /\ jobs'[j].job_id = jobs[i].job_id)
              => jobs'[j].status = "Done"]_vars

\* fg or bg runs.
ResumeRuns == \E arg \in 0..MaxPids : BuiltinFg(arg) \/ BuiltinBg(arg)

\* C33: when fg or bg turns a Stopped job into a Running one, every stopped
\* process of the job's pipeline has been continued.
C33_ContReachesPipeline ==
    [][ResumeRuns =>
          \A i \in 1..Len(jobs), j \in 1..Len(jobs') :
              (/\ jobs[i].status = "Stopped"
               /\ jobs'[j].job_id = jobs[i].job_id
               /\ jobs'[j].status = "Running")
              => \A p \in Pids :
                     (lead[p] = lead[jobs[i].pid] /\ procs[p].st = "stop")
                         => procs'[p].st = "run"]_vars

\* C34: when execute_pipeline returns because a fork failed, each child it
\* had forked before has been waited for, has been terminated, or belongs to a
\* pipeline that is in the job table.
C34_ForkFailureCleansUp ==
    [][(run'.kind = "forkfail" /\ nextpid' > nextpid) =>
          /\ ret' # 0
          /\ \A p \in nextpid..(nextpid' - 1) :
                \/ procs'[p].st \in {"zombie", "reaped"}
                \/ \E j \in 1..Len(jobs') : lead'[jobs'[j].pid] = lead'[p]]_vars

\* A child terminates, stops or continues in this step: SIGCHLD is delivered.
SigchldDelivered ==
    \E p \in Pids : /\ procs[p].st \in {"run", "stop"}
                    /\ procs'[p].st \in {"run", "stop", "zombie"}
                    /\ procs'[p].st # procs[p].st

\* C35: every SIGCHLD leaves the flag set; the flag is cleared only with a poll
\* of the job table as the very next step of the loop; and the top of the loop
\* never passes a set flag by. Hence a poll starts after each delivery, at the
\* latest when the top of the loop is next reached.
C35_NoLostChange ==
    [][/\ SigchldDelivered => child_exited' = 1
       /\ (child_exited = 1 /\ child_exited' = 0) => (pc = "top_clear" /\ pc' = "top_update")
       /\ (pc = "top_update" /\ pc' # pc) =>
              /\ jobs' = jobs_cleanup(jobs_update_status(jobs, procs).jobs)
              /\ procs' = jobs_update_status(jobs, procs).procs
       /\ (pc = "top" /\ child_exited = 1 /\ pc' \in {"prompt", "top_clear"})
              => pc' = "top_clear"]_vars

\* A SIGCHLD has arrived between the clearing of the flag and the poll.
C35_Witness ==
    pc = "top_update" /\ child_exited = 1 /\ \E p \in Pids : procs[p].st = "zombie"

\* C36: g_work_done is set only when no directory is queued and no worker
\* holds a directory it has popped and not finished.
C36_DoneMeansIdle ==
    [][(g_work_done' /\ ~g_work_done) =>
          /\ fd_count = 0
          /\ \A w \in FdWorkers : fd_threads[w] \notin {"popped", "active"}]_vars

\* C37: the workers of the file search are never all blocked in queue_push
\* on a full queue.
C37_NoPushDeadlock ==
    ~(fd_count = MAX_QUEUE_SIZE /\ \A w \in FdWorkers : fd_threads[w] = "push_wait")

\* The tasks thread_pool_submit has returned 0 for.
Accepted ==
    {t \in Tasks : /\ t < nexttask
                   /\ \A c \in Clients :
                         ctask[c] = t => (cpc[c] \notin {"submit_waiting", "submit"}
                                          /\ submit_rc[c] = 0)}

\* The places task t is at: slots of the queue between front and rear, and
\* workers that have dequeued it and not yet run it.
InQueue(t) ==
    Cardinality({k \in 0..(queue_size - 1) :
                    queue[(queue_front + k) % queue_capacity] = t})
InWorker(t) == Cardinality({w \in Workers : wpc[w] = "exec" /\ wtask[w] = t})

C39_UpDownUpNewest ==
    (keys = <<"up", "down", "up">> /\ Len(history_entries) > 0) =>
        nav_line = <<history_entries[Len(history_entries)]>>


\* C40: expand_globs_in_argv writes only within the MAX_EXPANDED_ARGS pointer
\* slots it allocates: at most MAX_EXPANDED_ARGS - 1 argument pointers and the
\* terminating NULL are stored, whatever the arguments and the glob matches.
C40_WithinAllocation ==
    /\ slots_written <= MAX_EXPANDED_ARGS
    /\ glob_pc = "returned" => new_argc <= MAX_EXPANDED_ARGS - 1

====
